---- MODULE Spec2Model ----
(***************************************************************************)
(* Telematics trip simulation and monthly risk-feature aggregation.        *)
(*                                                                         *)
(* The module holds several programs of the repository, each with its own  *)
(* specification over one shared tuple of variables:                       *)
(*   Spec        FastTrackPipeline (bin/quick_prototype.py): trip          *)
(*               generation, fast enrichment, monthly aggregation, smart   *)
(*               defaults, and main's KeyboardInterrupt handler.           *)
(*   SpecExtract the same pipeline over trips of several drivers, one of   *)
(*               them without a row in drivers_df.                         *)
(*   SpecAgg     _calculate_monthly_aggregations as a function of an       *)
(*               arbitrary list of TripData.                               *)
(*   SpecScale   ProductionScalePipeline._generate_large_scale_data        *)
(*               (bin/training/train_risk_models.py).                      *)
(*   SpecEnrich  TripSimulator.generate_driver_trips for one trip whose    *)
(*               lookups may return nothing or raise, then the monthly     *)
(*               aggregation of the trip.                                  *)
(*   SpecThreads threads in TripSimulator._enrich_with_real_apis: the      *)
(*               lock, the sleep, the call counter and the lookups.        *)
(*   SpecLoader  the download methods of USScaleDownloader and their       *)
(*               semaphores.                                               *)
(*   SpecPopulation  create_driver_population                              *)
(*               (data_generation/synthetic_personas.py).                  *)
(*   SpecSynth   TripSimulator._create_trip_profile and _generate_trip_data *)
(*               for one scheduled trip.                                   *)
(*   SpecStep5   Step5Orchestrator.execute_step_5                          *)
(*               (bin/training/simulate_trip_data.py) with                 *)
(*               TripSimulator.generate_driver_trips for every driver.     *)
(*   SpecRerun   steps 4 and 5 of FastTrackPipeline run twice over one     *)
(*               list of trips under one seed of the random module.        *)
(*   SpecLabel   _add_realistic_claims on a table of two records.          *)
(*   SpecRecord  _generate_monthly_record for one driver and month.        *)
(*   SpecSample  the sample of GPS points _enrich_with_real_apis takes.    *)
(*   SpecTemp    the _download_state_speed_limits tasks of one download    *)
(*               and the temp file they share.                             *)
(*                                                                         *)
(* Python floats are modelled as fixed-point numbers: an integer n stands  *)
(* for n / Scale.  Additions are exact; every division and multiplication  *)
(* rounds to the nearest representable value, as IEEE-754 does.            *)
(***************************************************************************)
EXTENDS Integers, Sequences, FiniteSets, TLC

(***************************************************************************)
(* Bounds of the model                                                     *)
(***************************************************************************)
\* fixed-point units per 1.0
Scale == 100
\* trips generated per driver (15 * sample_months in the source)
TripsPerDriver == 1
\* sample_months handed to FastTrackPipeline (main passes 3)
SampleMonths == 1
\* trips handed to the aggregation function in SpecAgg
MaxAggTrips == 2
\* months_count of ProductionScalePipeline (18 or 6 in the source)
MonthsCount == 2
\* threads that enrich trips through one TripSimulator
NumThreads == 2
\* sample points of the trip each thread enriches
PointsPerThread == 2
\* self.api_delay, in clock ticks
ApiDelay == 2
\* concurrent invocations of a download method of one USScaleDownloader
NumCalls == 3
\* states each download_us_speed_limits submits (50 in the source)
StatesPerCall == 3
\* num_trips handed to _generate_driver_trips_fast under SpecExtract
FastTrips == 2
\* num_drivers handed to create_driver_population
NumPopulationDrivers == 3
\* drivers execute_step_5 processes (num_drivers)
NumStep5Drivers == 3
\* batch_size of Step5Orchestrator (25 in main)
BatchSize == 2
\* fewest trips a month of a schedule (35 in the source)
MinTripsPerMonth == 1
\* most GPS points of a trip handed to _enrich_with_real_apis
MaxGpsLen == 60
\* states download_us_speed_limits submits under SpecTemp (50 in the source)
NumTempTasks == 3

(***************************************************************************)
(* Sequences                                                               *)
(***************************************************************************)
RECURSIVE SumSeq(_)
SumSeq(s) == IF s = <<>> THEN 0 ELSE Head(s) + SumSeq(Tail(s))

RECURSIVE MaxSeq(_)
MaxSeq(s) == IF s = <<>> THEN 0
             ELSE LET m == MaxSeq(Tail(s)) IN IF Head(s) > m THEN Head(s) ELSE m

Max2(a, b) == IF a > b THEN a ELSE b

\* Python's seq[::step]: elements at 0-based indices 0, step, 2*step, ...
SliceStep(s, step) ==
    [k \in 1..((Len(s) + step - 1) \div step) |-> s[(k - 1) * step + 1]]

(***************************************************************************)
(* Fixed-point float arithmetic (nonnegative operands)                     *)
(***************************************************************************)
\* a / b for two floats
FDiv(a, b) == (2 * a * Scale + b) \div (2 * b)
\* a / n for a float a and an int n
IDiv(a, n) == (2 * a + n) \div (2 * n)
\* a * b for two floats
FMul(a, b) == (2 * a * b + Scale) \div (2 * Scale)
\* the float of an int
F(n) == n * Scale
\* the float literal h / 100
Hundredths(h) == (h * Scale) \div 100

(***************************************************************************)
(* Calendar: day 0 is 2021-01-01, a Friday; 2021..2023 have 365 days each. *)
(* A datetime is a day number and an hour.                                 *)
(***************************************************************************)
DaysBefore == <<0, 31, 59, 90, 120, 151, 181, 212, 243, 273, 304, 334, 365>>

MonthStrings ==
    << "2021-01", "2021-02", "2021-03", "2021-04", "2021-05", "2021-06",
       "2021-07", "2021-08", "2021-09", "2021-10", "2021-11", "2021-12",
       "2022-01", "2022-02", "2022-03", "2022-04", "2022-05", "2022-06",
       "2022-07", "2022-08", "2022-09", "2022-10", "2022-11", "2022-12",
       "2023-01", "2023-02", "2023-03", "2023-04", "2023-05", "2023-06",
       "2023-07", "2023-08", "2023-09", "2023-10", "2023-11", "2023-12" >>

\* 1..12, the month of the year a day lies in
MonthOfYear(day) ==
    LET doy == day % 365
    IN  CHOOSE m \in 1..12 : DaysBefore[m] <= doy /\ doy < DaysBefore[m + 1]

\* 1..36, the index of the calendar month a day lies in
MonthIndex(day) == (day \div 365) * 12 + MonthOfYear(day)

\* datetime.strftime("%Y-%m")
StrfYm(day) == MonthStrings[MonthIndex(day)]

\* int(month.split('-')[1])
MonthNum(month) ==
    LET i == CHOOSE j \in 1..Len(MonthStrings) : MonthStrings[j] = month
    IN  ((i - 1) % 12) + 1

\* datetime.weekday(): Monday is 0
Weekday(day) == (day + 4) % 7

(***************************************************************************)
(* Driver portfolio (data/simulated/drivers.csv).  A driver_id is the      *)
(* sequence of the pieces str.split('_') yields for it.                    *)
(***************************************************************************)
Driver1 == [driver_id |-> <<"driver", "000001">>, persona_type |-> "safe_driver",
            driver_age |-> 45, vehicle_age |-> 3, prior_at_fault_accidents |-> 0,
            years_licensed |-> 20, data_source |-> "phone_only",
            hard_brake_rate_base |-> Hundredths(30),
            rapid_accel_rate_base |-> Hundredths(20),
            harsh_corner_rate_base |-> Hundredths(10),
            speeding_rate_base |-> Hundredths(20),
            phone_usage_pct_base |-> Hundredths(5),
            night_driving_pct_base |-> Hundredths(10),
            avg_speed_multiplier |-> Hundredths(90),
            jerk_rate_multiplier |-> Hundredths(60)]

Driver2 == [driver_id |-> <<"driver", "000002">>, persona_type |-> "risky_driver",
            driver_age |-> 22, vehicle_age |-> 12, prior_at_fault_accidents |-> 2,
            years_licensed |-> 4, data_source |-> "phone_plus_device",
            hard_brake_rate_base |-> Hundredths(880),
            rapid_accel_rate_base |-> Hundredths(660),
            harsh_corner_rate_base |-> Hundredths(440),
            speeding_rate_base |-> Hundredths(550),
            phone_usage_pct_base |-> Hundredths(40),
            night_driving_pct_base |-> Hundredths(45),
            avg_speed_multiplier |-> Hundredths(130),
            jerk_rate_multiplier |-> Hundredths(200)]

drivers_df == <<Driver1, Driver2>>

VARIABLES
    \* FastTrackPipeline
    now,                    \* the day datetime.now() falls on
    pc,                     \* the step of execute_complete_pipeline / main
    cursor,                 \* position of the running loop
    trips_data,             \* List[TripData]
    driver_month_groups,    \* the dict, as its items in insertion order
    monthly_features_list,  \* List[MonthlyFeatures]
    skip_warnings,          \* the driver-months logger.warning reported skipped
    result,                 \* what main returns
    \* _calculate_monthly_aggregations on its own
    agg_trips,              \* the trips argument
    agg_status,             \* "input", "returned" or "raised"
    agg_out,                \* the MonthlyFeatures returned, in a list
    \* ProductionScalePipeline._generate_large_scale_data
    scale_cursor,           \* [driver, month_offset] of the running loops
    monthly_records,        \* List[Dict]
    \* TripSimulator._generate_trip_data for one trip, then its aggregation
    enrich_pc,              \* the step of generate_driver_trips
    providers,              \* how the lookups behave during this trip
    point_idx,              \* sample points handled so far
    contextual_data,        \* the list _enrich_with_real_apis builds
    driver_trips,           \* the trips list generate_driver_trips returns
    trip_features,          \* the MonthlyFeatures of the trip's month
    \* threads enriching trips through one TripSimulator
    thread_pc,              \* where each thread is in _enrich_with_real_apis
    thread_point,           \* sample points each thread has finished
    thread_count,           \* the _api_call_count each thread has read
    api_lock,               \* holder of _api_lock, 0 when it is free
    sleep_left,             \* what is left of the running time.sleep
    api_call_count,         \* self._api_call_count
    progress_calls,         \* self.progress['api_calls_made']
    since_dispatch,         \* time since the last lookups were dispatched
    last_gap,               \* time between the last two dispatches
    \* USScaleDownloader: the tasks of the running download, counted by
    \* where they are
    download,               \* the provider of the running download
    remaining,              \* tasks submitted and not started
    waiting,                \* tasks blocked entering the semaphore
    ready,                  \* tasks inside the semaphore, between requests
    calling,                \* tasks inside the semaphore with a request in flight
    finishing,              \* tasks inside the semaphore, about to leave it
    finished,               \* tasks that have returned
    semaphore,              \* the value of self._api_locks[provider]
    call_failed,            \* whether a request has failed
    \* Step5Orchestrator.execute_step_5
    step5_pc,               \* the step of execute_step_5 / main
    step5_months,           \* the months argument
    driver_cursor,          \* rows of drivers_df the batch loops have passed
    stats,                  \* self.stats
    file_paths,             \* the drivers whose trips file is written
    error_log,              \* the drivers and errors logger.error reported
    warning_log,            \* the trips logger.warning reported for the last driver
    trip_profiles,          \* the schedule of the last driver
    trips_returned,         \* what generate_driver_trips returned for them
    summary,                \* step_5_summary.json, in a list
    \* create_driver_population
    pop_pc,                 \* the step of create_driver_population
    persona_distribution,   \* the persona_distribution argument
    population,             \* the drivers list
    \* TripSimulator: one trip profile and the trip synthesized from it
    synth_pc,               \* the step: the profile, then the trip
    synth_profile,          \* the TripProfile, in a list
    synth_trip,             \* the TripData, in a list
    \* the random module under a seed, and the aggregation run twice
    rng_stream,             \* the values the generator yields after seed()
    rng_pos,                \* how many of them have been drawn
    first_run,              \* the records of the first run, in a list
    \* TripSimulator._enrich_with_real_apis: the points it samples
    gps_len,                \* len(gps_points)
    sample_points,          \* the indices of sample_points in gps_points
    \* USScaleDownloader.download_us_speed_limits: the tasks and their files
    temp_pc,                \* where each _download_state_speed_limits task is
    temp_file,              \* the task whose data temp/osm_speed_limits_real.parquet holds; 0 when absent
    state_files,            \* the task whose data each speed_limits_<state>.parquet holds
    temp_missed             \* the tasks that downloaded and found no temp file

pipeVars  == <<pc, cursor, trips_data, driver_month_groups,
               monthly_features_list, skip_warnings, result>>
aggVars   == <<agg_trips, agg_status, agg_out>>
scaleVars == <<scale_cursor, monthly_records>>
enrichVars == <<enrich_pc, providers, point_idx, contextual_data, driver_trips,
                trip_features>>
threadVars == <<thread_pc, thread_point, thread_count, api_lock, sleep_left,
                api_call_count, progress_calls, since_dispatch, last_gap>>
loaderVars == <<download, remaining, waiting, ready, calling, finishing,
                finished, semaphore, call_failed>>

step5Vars == <<step5_pc, step5_months, driver_cursor, stats, file_paths,
               error_log, warning_log, trip_profiles, trips_returned, summary>>

popVars   == <<pop_pc, persona_distribution, population>>
synthVars == <<synth_pc, synth_profile, synth_trip>>
rerunVars == <<rng_stream, rng_pos, first_run>>
sampleVars == <<gps_len, sample_points>>
tempVars == <<temp_pc, temp_file, state_files, temp_missed>>

vars == <<now, pipeVars, aggVars, scaleVars, enrichVars, threadVars, loaderVars,
          step5Vars, popVars, synthVars, rerunVars,
          sampleVars,
          tempVars>>

\* the variables of the programs that are not running
ParkPipe ==
    /\ pc = "off" /\ cursor = 0 /\ trips_data = <<>>
    /\ driver_month_groups = <<>> /\ monthly_features_list = <<>>
    /\ skip_warnings = <<>>
    /\ result = [status |-> "off"]
ParkAgg == agg_trips = <<>> /\ agg_status = "off" /\ agg_out = <<>>
ParkScale == scale_cursor = [driver |-> 0, month_offset |-> 0] /\ monthly_records = <<>>
ParkEnrich ==
    /\ enrich_pc = "off" /\ providers = <<>> /\ point_idx = 0
    /\ contextual_data = <<>> /\ driver_trips = <<>> /\ trip_features = <<>>
ParkThreads ==
    /\ thread_pc = <<>> /\ thread_point = <<>> /\ thread_count = <<>>
    /\ api_lock = 0 /\ sleep_left = 0 /\ api_call_count = 0
    /\ progress_calls = 0 /\ since_dispatch = 0 /\ last_gap = 0

ParkLoader ==
    /\ download = "off" /\ remaining = 0 /\ waiting = 0 /\ ready = 0
    /\ calling = 0 /\ finishing = 0 /\ finished = 0 /\ semaphore = 0
    /\ call_failed = FALSE

ParkStep5 ==
    /\ step5_pc = "off" /\ step5_months = 0 /\ driver_cursor = 0
    /\ stats = [drivers_processed |-> 0, total_drivers |-> 0,
                trips_generated |-> 0]
    /\ file_paths = <<>> /\ error_log = <<>> /\ warning_log = <<>>
    /\ trip_profiles = <<>> /\ trips_returned = <<>> /\ summary = <<>>

ParkPopulation ==
    pop_pc = "off" /\ persona_distribution = <<>> /\ population = <<>>
ParkSynth == synth_pc = "off" /\ synth_profile = <<>> /\ synth_trip = <<>>
ParkRerun == rng_stream = <<>> /\ rng_pos = 0 /\ first_run = <<>>
ParkTemp == temp_pc = <<>> /\ temp_file = 0 /\ state_files = <<>> /\ temp_missed = {}
ParkSample == gps_len = 0 /\ sample_points = <<>>

OnlyPipe    == UNCHANGED <<aggVars, scaleVars, enrichVars, threadVars, loaderVars,
                           step5Vars, popVars, synthVars,
                           rerunVars,
                           sampleVars,
                           tempVars>>
OnlyAgg     == UNCHANGED <<now, pipeVars, scaleVars, enrichVars, threadVars,
                           loaderVars, step5Vars, popVars, synthVars,
                           rerunVars,
                           sampleVars,
                           tempVars>>
OnlyScale   == UNCHANGED <<pipeVars, aggVars, enrichVars, threadVars, loaderVars,
                           step5Vars, popVars, synthVars,
                           rerunVars,
                           sampleVars,
                           tempVars>>
OnlyEnrich  == UNCHANGED <<now, pipeVars, aggVars, scaleVars, threadVars,
                           loaderVars, step5Vars, popVars, synthVars,
                           rerunVars,
                           sampleVars,
                           tempVars>>
OnlyThreads == UNCHANGED <<now, pipeVars, aggVars, scaleVars, enrichVars,
                           loaderVars, step5Vars, popVars, synthVars,
                           rerunVars,
                           sampleVars,
                           tempVars>>
OnlyLoader  == UNCHANGED <<now, pipeVars, aggVars, scaleVars, enrichVars,
                           threadVars, step5Vars, popVars, synthVars,
                           rerunVars,
                           sampleVars,
                           tempVars>>
OnlyStep5   == UNCHANGED <<pipeVars, aggVars, scaleVars, enrichVars, threadVars,
                           loaderVars, popVars, synthVars,
                           rerunVars,
                           sampleVars,
                           tempVars>>
OnlyPopulation == UNCHANGED <<now, pipeVars, aggVars, scaleVars, enrichVars,
                              threadVars, loaderVars, step5Vars, synthVars,
                           rerunVars,
                           sampleVars,
                           tempVars>>
OnlyRerun   == UNCHANGED <<aggVars, scaleVars, enrichVars, threadVars,
                           loaderVars, step5Vars, popVars, synthVars,
                           sampleVars,
                           tempVars>>
OnlySample  == UNCHANGED <<now, pipeVars, aggVars, scaleVars, enrichVars,
                           threadVars, loaderVars, step5Vars, popVars,
                           synthVars, rerunVars,
                           tempVars>>
OnlyTemp    == UNCHANGED <<now, pipeVars, aggVars, scaleVars, enrichVars,
                           threadVars, loaderVars, step5Vars, popVars,
                           synthVars, rerunVars, sampleVars>>
OnlySynth   == UNCHANGED <<pipeVars, aggVars, scaleVars, enrichVars, threadVars,
                           loaderVars, step5Vars, popVars,
                           rerunVars,
                           sampleVars,
                           tempVars>>

(***************************************************************************)
(* FastTrackPipeline: trip generation                                      *)
(***************************************************************************)
\* The random draws of one _generate_driver_trips_fast iteration, bundled:
\* trip_duration, the miles-per-minute factor, the hour of the day the
\* fractional day offset lands on, the cruising speed factor, the events
\* whose draw succeeded and the phone-usage factors.
TripShapes ==
    { [duration |-> Hundredths(1050), factor |-> Hundredths(35), hour |-> 8,
       speed_variation |-> Hundredths(70), events |-> <<>>,
       screen |-> Hundredths(50), call |-> Hundredths(10),
       handheld |-> Hundredths(60)],
      [duration |-> Hundredths(2000), factor |-> Hundredths(50), hour |-> 6,
       speed_variation |-> Hundredths(100), events |-> <<"rapid_accel">>,
       screen |-> Hundredths(100), call |-> Hundredths(25),
       handheld |-> Hundredths(75)],
      [duration |-> Hundredths(4500), factor |-> Hundredths(80), hour |-> 23,
       speed_variation |-> Hundredths(130),
       events |-> <<"hard_brake", "speeding">>,
       screen |-> Hundredths(150), call |-> Hundredths(40),
       handheld |-> Hundredths(90)] }

\* the days datetime.now() is drawn from
NowChoices == {365 + 40, 365 + 89}

\* start_date, and (end_date - start_date).days
StartDate(today) == today - SampleMonths * 30
SpanDays == SampleMonths * 30 - 5

\* the whole-day parts of random.uniform(0, span) the model draws
DayOffsetChoices == {0, SpanDays - 1}

\* trips_per_driver = 15 * self.sample_months
trips_per_driver == TripsPerDriver

\* int(x) of a nonnegative float
IntOf(x) == x \div Scale

\* _generate_simple_gps_path: the speed_mph of each GPSPoint; every fourth
\* point is a traffic-light stop at 3 mph
GenerateSimpleGpsPath(duration_minutes, speed_variation) ==
    LET num_points == Max2(10, IntOf(duration_minutes) \div 3)
    IN  [i \in 1..num_points |->
            IF i % 4 = 0 THEN F(3) ELSE FMul(F(30), speed_variation)]

\* _calculate_phone_usage
CalculatePhoneUsage(trip_duration, usage_pct, shape) ==
    LET screen_on == FMul(FMul(trip_duration, usage_pct), shape.screen)
    IN  [screen_on |-> screen_on,
         call_time |-> FMul(screen_on, shape.call),
         handheld  |-> FMul(screen_on, shape.handheld)]

\* one iteration of the loop of _generate_driver_trips_fast
MakeTrip(driver_data, trip_num, today, day_offset, shape) ==
    LET gps   == GenerateSimpleGpsPath(shape.duration, shape.speed_variation)
        phone == CalculatePhoneUsage(shape.duration,
                                     driver_data.phone_usage_pct_base, shape)
    IN  [trip_id    |-> <<driver_data.driver_id, trip_num>>,
         driver_id  |-> driver_data.driver_id,
         start_day  |-> StartDate(today) + day_offset,
         start_hour |-> shape.hour,
         gps_points |-> gps,
         behavioral_events |-> shape.events,
         contextual_data   |-> <<>>,
         data_source |-> driver_data.data_source,
         total_distance_miles |-> FMul(shape.duration, shape.factor),
         duration_minutes     |-> shape.duration,
         screen_on_duration_minutes |-> phone.screen_on,
         call_duration_minutes      |-> phone.call_time,
         handheld_duration_minutes  |-> phone.handheld]

(***************************************************************************)
(* FastTrackPipeline: fast enrichment                                      *)
(***************************************************************************)
\* the day and hour of the i-th (1-based) of n GPS points of a trip that
\* starts on the hour
PointTime(trip, i) ==
    LET n       == Len(trip.gps_points)
        minutes == IntOf(((i - 1) * trip.duration_minutes) \div (n - 1))
        h       == trip.start_hour + minutes \div 60
    IN  [day |-> trip.start_day + h \div 24, hour |-> h % 24]

\* the context the hard-coded rules give one sampled point; precip tells
\* whether the random draw of the season's precipitation succeeded
FastContext(trip, i, precip) ==
    LET speed == trip.gps_points[i]
        t     == PointTime(trip, i)
        month == MonthOfYear(t.day)
        road  == IF speed > F(50) THEN "highway"
                 ELSE IF speed > F(25) THEN "arterial" ELSE "residential"
        limit == IF speed > F(50) THEN 55
                 ELSE IF speed > F(25) THEN 35 ELSE 25
        rush  == (7 <= t.hour /\ t.hour <= 9) \/ (17 <= t.hour /\ t.hour <= 19)
    IN  [posted_speed_limit_mph |-> limit,
         road_type |-> road,
         weather_condition |->
             IF ~precip THEN "clear"
             ELSE IF month \in {12, 1, 2} THEN "snow" ELSE "rain",
         traffic_level |->
             IF road = "highway"
             THEN IF rush THEN "heavy"
                  ELSE IF 10 <= t.hour /\ t.hour <= 16 THEN "moderate"
                  ELSE "light"
             ELSE IF 8 <= t.hour /\ t.hour <= 17 THEN "moderate" ELSE "light"]

\* the 1-based indices of gps_points[::max(1, len(gps_points) // 5)]
SampleIndices(gps_points) ==
    LET step == Max2(1, Len(gps_points) \div 5)
    IN  SliceStep([i \in 1..Len(gps_points) |-> i], step)

\* the contextual_data of one trip; the first wet sampled points draw
\* precipitation
EnrichTripFast(trip, wet) ==
    LET idx == SampleIndices(trip.gps_points)
    IN  [trip EXCEPT !.contextual_data =
            [k \in 1..Len(idx) |-> FastContext(trip, idx[k], k <= wet)]]

(***************************************************************************)
(* FastTrackPipeline: monthly aggregation                                  *)
(***************************************************************************)
\* len([e for e in trip.behavioral_events if e.event_type == event_type])
CountEvents(trip, event_type) ==
    Len(SelectSeq(trip.behavioral_events, LAMBDA e : e = event_type))

\* miles_factor = max(0.01, total_miles / 100.0)
MilesFactor(total_miles) == Max2(Hundredths(1), IDiv(total_miles, 100))

\* events / miles_factor
RatePer100Miles(events, total_miles) == FDiv(F(events), MilesFactor(total_miles))

\* hour >= 22 or hour <= 6
IsNightHour(hour) == hour >= 22 \/ hour <= 6

\* (7 <= hour <= 9) or (17 <= hour <= 19)
IsRushHour(hour) == (7 <= hour /\ hour <= 9) \/ (17 <= hour /\ hour <= 19)

\* (part / total * 100) if total > 0 else 0
Pct(part, total) == IF total > 0 THEN FDiv(part, total) * 100 ELSE 0

\* context_miles = trip_miles / len(trip.contextual_data), computed inside
\* the loop over trip.contextual_data: once per context
ContextMiles(trip) ==
    [k \in 1..Len(trip.contextual_data) |->
        IDiv(trip.total_distance_miles, Len(trip.contextual_data))]

\* the miles of one trip whose contexts have one of the values in the field
MilesWhere(trip, field, values) ==
    LET cm == ContextMiles(trip)
    IN  SumSeq([k \in 1..Len(cm) |->
                   IF trip.contextual_data[k][field] \in values THEN cm[k] ELSE 0])

\* max over contexts and GPS points of speed_mph - posted_speed_limit_mph
MaxSpeedOverLimit(trip) ==
    MaxSeq([k \in 1..Len(trip.contextual_data) |->
        MaxSeq([i \in 1..Len(trip.gps_points) |->
            LET limit == trip.contextual_data[k].posted_speed_limit_mph
                speed == trip.gps_points[i]
            IN  IF limit # 0 /\ speed # 0 /\ speed - F(limit) > 0
                THEN speed - F(limit) ELSE 0])])

\* a ZeroDivisionError of _calculate_monthly_aggregations: one of its
\* unguarded divisions is evaluated with a zero divisor
AggregationRaises(trips) ==
    \/ \E i \in 1..Len(trips) : \E k \in 1..Len(trips[i].contextual_data) :
          Len(trips[i].contextual_data) = 0
    \/ MilesFactor(SumSeq([i \in 1..Len(trips) |->
                              trips[i].total_distance_miles])) = 0

\* DataSource.PHONE_PLUS_DEVICE if ... == 'phone_plus_device' else PHONE_ONLY
DataSourceOf(s) == IF s = "phone_plus_device" THEN "phone_plus_device"
                   ELSE "phone_only"

\* _create_zero_features
CreateZeroFeatures(driver_id, month, driver_info) ==
    [driver_id |-> driver_id, month |-> month,
     total_trips |-> 0, total_drive_time_hours |-> 0, total_miles_driven |-> 0,
     avg_speed_mph |-> 0, max_speed_mph |-> 0, avg_jerk_rate |-> 0,
     hard_brake_rate_per_100_miles |-> 0, rapid_accel_rate_per_100_miles |-> 0,
     harsh_cornering_rate_per_100_miles |-> 0,
     swerving_events_per_100_miles |-> 0,
     pct_miles_night |-> 0, pct_miles_late_night_weekend |-> 0,
     pct_miles_weekday_rush_hour |-> 0,
     pct_trip_time_screen_on |-> 0, handheld_events_rate_per_hour |-> 0,
     pct_trip_time_on_call_handheld |-> 0,
     avg_engine_rpm |-> F(2100), has_dtc_codes |-> FALSE,
     airbag_deployment_flag |-> FALSE,
     driver_age |-> driver_info.driver_age,
     vehicle_age |-> driver_info.vehicle_age,
     prior_at_fault_accidents |-> driver_info.prior_at_fault_accidents,
     years_licensed |-> driver_info.years_licensed,
     data_source |-> DataSourceOf(driver_info.data_source),
     speeding_rate_per_100_miles |-> 0, max_speed_over_limit_mph |-> 0,
     pct_miles_highway |-> 0, pct_miles_urban |-> 0,
     pct_miles_in_rain_or_snow |-> 0, pct_miles_in_heavy_traffic |-> 0]

\* _calculate_monthly_aggregations
CalculateMonthlyAggregations(driver_id, month, trips, driver_info) ==
    IF trips = <<>> THEN CreateZeroFeatures(driver_id, month, driver_info)
    ELSE
    LET N == 1..Len(trips)
        total_miles   == SumSeq([i \in N |-> trips[i].total_distance_miles])
        total_minutes == SumSeq([i \in N |-> trips[i].duration_minutes])
        total_hours   == IDiv(total_minutes, 60)
        n_speeds      == SumSeq([i \in N |-> Len(trips[i].gps_points)])
        sum_speeds    == SumSeq([i \in N |-> SumSeq(trips[i].gps_points)])
        max_speed     == MaxSeq([i \in N |-> MaxSeq(trips[i].gps_points)])
        hard_brakes   == SumSeq([i \in N |-> CountEvents(trips[i], "hard_brake")])
        rapid_accels  == SumSeq([i \in N |-> CountEvents(trips[i], "rapid_accel")])
        speeding_events == SumSeq([i \in N |-> CountEvents(trips[i], "speeding")])
        night_miles   == SumSeq([i \in N |->
                            IF IsNightHour(trips[i].start_hour)
                            THEN trips[i].total_distance_miles ELSE 0])
        late_night_weekend_miles == SumSeq([i \in N |->
                            IF IsNightHour(trips[i].start_hour)
                               /\ Weekday(trips[i].start_day) \in {4, 5}
                            THEN trips[i].total_distance_miles ELSE 0])
        rush_hour_miles == SumSeq([i \in N |->
                            IF Weekday(trips[i].start_day) < 5
                               /\ IsRushHour(trips[i].start_hour)
                            THEN trips[i].total_distance_miles ELSE 0])
        total_screen_time   == SumSeq([i \in N |-> trips[i].screen_on_duration_minutes])
        total_call_time     == SumSeq([i \in N |-> trips[i].call_duration_minutes])
        total_handheld_time == SumSeq([i \in N |-> trips[i].handheld_duration_minutes])
        highway_miles == SumSeq([i \in N |->
                            MilesWhere(trips[i], "road_type", {"highway"})])
        urban_miles   == SumSeq([i \in N |->
                            MilesWhere(trips[i], "road_type",
                                       {"arterial", "residential"})])
        rain_snow_miles == SumSeq([i \in N |->
                            MilesWhere(trips[i], "weather_condition",
                                       {"rain", "snow"})])
        heavy_traffic_miles == SumSeq([i \in N |->
                            MilesWhere(trips[i], "traffic_level", {"heavy"})])
    IN
    [driver_id |-> driver_id, month |-> month,
     total_trips |-> Len(trips),
     total_drive_time_hours |-> total_hours,
     total_miles_driven |-> total_miles,
     avg_speed_mph |-> IF n_speeds > 0 THEN IDiv(sum_speeds, n_speeds) ELSE 0,
     max_speed_mph |-> max_speed,
     avg_jerk_rate |-> FMul(Hundredths(50), driver_info.jerk_rate_multiplier),
     hard_brake_rate_per_100_miles  |-> RatePer100Miles(hard_brakes, total_miles),
     rapid_accel_rate_per_100_miles |-> RatePer100Miles(rapid_accels, total_miles),
     harsh_cornering_rate_per_100_miles |-> 0,
     swerving_events_per_100_miles |-> 0,
     pct_miles_night |-> Pct(night_miles, total_miles),
     pct_miles_late_night_weekend |-> Pct(late_night_weekend_miles, total_miles),
     pct_miles_weekday_rush_hour |-> Pct(rush_hour_miles, total_miles),
     pct_trip_time_screen_on |-> Pct(total_screen_time, total_minutes),
     handheld_events_rate_per_hour |->
         IF total_hours > 0 THEN FDiv(total_handheld_time, total_hours) ELSE 0,
     pct_trip_time_on_call_handheld |-> Pct(total_call_time, total_minutes),
     avg_engine_rpm |-> F(2100), has_dtc_codes |-> FALSE,
     airbag_deployment_flag |-> FALSE,
     driver_age |-> driver_info.driver_age,
     vehicle_age |-> driver_info.vehicle_age,
     prior_at_fault_accidents |-> driver_info.prior_at_fault_accidents,
     years_licensed |-> driver_info.years_licensed,
     data_source |-> DataSourceOf(driver_info.data_source),
     speeding_rate_per_100_miles |-> RatePer100Miles(speeding_events, total_miles),
     max_speed_over_limit_mph |->
         MaxSeq([i \in 1..Len(trips) |-> MaxSpeedOverLimit(trips[i])]),
     pct_miles_highway |-> Pct(highway_miles, total_miles),
     pct_miles_urban |-> Pct(urban_miles, total_miles),
     pct_miles_in_rain_or_snow |-> Pct(rain_snow_miles, total_miles),
     pct_miles_in_heavy_traffic |-> Pct(heavy_traffic_miles, total_miles)]

(***************************************************************************)
(* FastTrackPipeline: the steps of execute_complete_pipeline               *)
(***************************************************************************)
\* month_key and driver_month_key of _extract_monthly_features: the pieces
\* of f"{trip.driver_id}_{month_key}" between its underscores
DriverMonthKey(trip) == trip.driver_id \o <<StrfYm(trip.start_day)>>

\* the index of a key among the dict's items, 0 when it is not in the dict
KeyIndex(groups, key) ==
    IF \E i \in 1..Len(groups) : groups[i].key = key
    THEN CHOOSE i \in 1..Len(groups) : groups[i].key = key
    ELSE 0

\* the first loop of _extract_monthly_features
RECURSIVE GroupByDriverMonth(_, _)
GroupByDriverMonth(trips, groups) ==
    IF trips = <<>> THEN groups
    ELSE LET trip == Head(trips)
             key  == DriverMonthKey(trip)
             i    == KeyIndex(groups, key)
         IN  GroupByDriverMonth(Tail(trips),
                IF i = 0
                THEN Append(groups, [key |-> key, trips |-> <<trip>>])
                ELSE [groups EXCEPT ![i].trips = Append(@, trip)])

\* driver_id and month parsed back from driver_month_key.split('_')
ParseDriverId(parts) == SubSeq(parts, 1, Len(parts) - 1)
ParseMonth(parts) == parts[Len(parts)]

\* drivers_df[drivers_df['driver_id'] == driver_id]
DriverMatches(driver_id) ==
    SelectSeq(drivers_df, LAMBDA d : d.driver_id = driver_id)

\* if len(driver_matches) == 0
DriverNotFoundIgnored(driver_matches) == FALSE
DriverNotFound(driver_matches) == Len(driver_matches) = 0

\* the body of the second loop of _extract_monthly_features for one item:
\* the features appended, or <<>> when the item is skipped
FeaturesOfGroup(group) ==
    LET parts == group.key
    IN  IF Len(parts) < 2 THEN <<>>
        ELSE LET driver_id == ParseDriverId(parts)
                 month     == ParseMonth(parts)
                 matches   == DriverMatches(driver_id)
             IN  IF DriverNotFound(matches) THEN <<>>
                 ELSE <<CalculateMonthlyAggregations(
                            driver_id, month, group.trips, matches[1])>>

\* the key of the item when the loop body logs that it skips it
WarningsOfGroup(group) ==
    LET parts == group.key
    IN  IF Len(parts) < 2 THEN <<parts>>
        ELSE IF DriverNotFound(DriverMatches(ParseDriverId(parts)))
        THEN <<parts>> ELSE <<>>

\* the loop body raises: driver_matches.iloc[0] of an empty frame
\* (IndexError), or a ZeroDivisionError of the aggregation
ExtractRaises(group) ==
    LET parts   == group.key
        matches == DriverMatches(ParseDriverId(parts))
    IN  /\ Len(parts) >= 2
        /\ \/ ~DriverNotFound(matches) /\ Len(matches) = 0
           \/ ~DriverNotFound(matches) /\ AggregationRaises(group.trips)

\* the vehicle-system draws _apply_smart_defaults makes for one record
VehicleDraws == {[rpm |-> F(1800), dtc |-> FALSE], [rpm |-> F(2500), dtc |-> TRUE]}

\* the body of the loop of _apply_smart_defaults
DeviceDefaults(features, draw) ==
    [features EXCEPT !.avg_engine_rpm = draw.rpm, !.has_dtc_codes = draw.dtc,
                     !.airbag_deployment_flag = FALSE]
SmartDefaults(features, draw) ==
    IF features.data_source = "phone_only"
    THEN [features EXCEPT !.avg_engine_rpm = F(2100), !.has_dtc_codes = FALSE,
                          !.airbag_deployment_flag = FALSE]
    ELSE [features EXCEPT !.avg_engine_rpm = draw.rpm, !.has_dtc_codes = draw.dtc,
                          !.airbag_deployment_flag = FALSE]

Init ==
    /\ now \in NowChoices
    /\ pc = "generate"
    /\ cursor = 0
    /\ trips_data = <<>>
    /\ driver_month_groups = <<>>
    /\ monthly_features_list = <<>>
    /\ skip_warnings = <<>>
    /\ result = [status |-> "running"]
    /\ ParkAgg /\ ParkScale /\ ParkEnrich /\ ParkThreads /\ ParkLoader
    /\ ParkStep5 /\ ParkPopulation /\ ParkSynth /\ ParkRerun /\ ParkSample /\ ParkTemp

\* _generate_sample_trips / _generate_driver_trips_fast: one trip
GenerateTrip ==
    /\ pc = "generate"
    /\ \E day_offset \in DayOffsetChoices, shape \in TripShapes :
          LET driver_data == drivers_df[(cursor \div trips_per_driver) + 1]
              trip_num    == cursor % trips_per_driver
          IN  trips_data' = Append(trips_data,
                  MakeTrip(driver_data, trip_num, now, day_offset, shape))
    /\ cursor' = IF cursor + 1 = Len(drivers_df) * trips_per_driver
                 THEN 0 ELSE cursor + 1
    /\ pc' = IF cursor + 1 = Len(drivers_df) * trips_per_driver
             THEN "enrich" ELSE "generate"
    /\ UNCHANGED <<now, skip_warnings, driver_month_groups, monthly_features_list, result>>
    /\ OnlyPipe

\* _enrich_with_fast_apis: one trip
EnrichTrip ==
    /\ pc = "enrich"
    /\ LET trip == trips_data[cursor + 1]
           ns   == Len(SampleIndices(trip.gps_points))
       IN  \E wet \in {0, ns} :
              trips_data' = [trips_data EXCEPT ![cursor + 1] =
                                EnrichTripFast(trip, wet)]
    /\ cursor' = IF cursor + 1 = Len(trips_data) THEN 0 ELSE cursor + 1
    /\ pc' = IF cursor + 1 = Len(trips_data) THEN "group" ELSE "enrich"
    /\ UNCHANGED <<now, skip_warnings, driver_month_groups, monthly_features_list, result>>
    /\ OnlyPipe

\* _extract_monthly_features: the grouping loop
GroupTrips ==
    /\ pc = "group"
    /\ driver_month_groups' = GroupByDriverMonth(trips_data, <<>>)
    /\ pc' = "aggregate"
    /\ cursor' = 0
    /\ UNCHANGED <<now, skip_warnings, trips_data, monthly_features_list, result>>
    /\ OnlyPipe

\* _extract_monthly_features: one item of the aggregation loop
AggregateGroup ==
    /\ pc = "aggregate"
    /\ cursor < Len(driver_month_groups)
    /\ ~ExtractRaises(driver_month_groups[cursor + 1])
    /\ monthly_features_list' =
           monthly_features_list \o FeaturesOfGroup(driver_month_groups[cursor + 1])
    /\ skip_warnings' =
           skip_warnings \o WarningsOfGroup(driver_month_groups[cursor + 1])
    /\ cursor' = cursor + 1
    /\ UNCHANGED <<now, pc, trips_data, driver_month_groups, result>>
    /\ OnlyPipe

\* _apply_smart_defaults
ApplySmartDefaults ==
    /\ pc = "aggregate"
    /\ cursor = Len(driver_month_groups)
    /\ \E draws \in [1..Len(monthly_features_list) -> VehicleDraws] :
          monthly_features_list' =
              [i \in 1..Len(monthly_features_list) |->
                  SmartDefaults(monthly_features_list[i], draws[i])]
    /\ pc' = "finalize"
    /\ UNCHANGED <<now, skip_warnings, cursor, trips_data, driver_month_groups, result>>
    /\ OnlyPipe

\* _finalize_results, and main returning the results
FinalizeResults ==
    /\ pc = "finalize"
    /\ result' = [status |-> "completed", records |-> monthly_features_list]
    /\ pc' = "done"
    /\ UNCHANGED <<now, skip_warnings, cursor, trips_data, driver_month_groups,
                   monthly_features_list>>
    /\ OnlyPipe

\* main: except KeyboardInterrupt
KeyboardInterrupt ==
    /\ pc \notin {"done", "interrupted"}
    /\ pc' = "interrupted"
    /\ result' = [status |-> "interrupted"]
    /\ UNCHANGED <<now, skip_warnings, cursor, trips_data, driver_month_groups,
                   monthly_features_list>>
    /\ OnlyPipe

Next ==
    \/ GenerateTrip
    \/ EnrichTrip
    \/ GroupTrips
    \/ AggregateGroup
    \/ ApplySmartDefaults
    \/ FinalizeResults
    \/ KeyboardInterrupt

Spec == Init /\ [][Next]_vars

(***************************************************************************)
(* SpecExtract: _generate_driver_trips_fast for every driver of a          *)
(* portfolio, then the rest of the pipeline with a drivers_df that lacks   *)
(* one of them                                                             *)
(***************************************************************************)
\* a driver of the portfolio the trips were generated from, with no row in
\* the drivers_df handed to _extract_monthly_features
Driver3 == [Driver1 EXCEPT !.driver_id = <<"driver", "000003">>]

\* the portfolio the trips are generated from
trip_drivers == <<Driver3, Driver1>>

InitExtract ==
    /\ now = 365 + 40
    /\ pc = "generate"
    /\ cursor = 0
    /\ trips_data = <<>>
    /\ driver_month_groups = <<>>
    /\ monthly_features_list = <<>>
    /\ skip_warnings = <<>>
    /\ result = [status |-> "running"]
    /\ ParkAgg /\ ParkScale /\ ParkEnrich /\ ParkThreads /\ ParkLoader
    /\ ParkStep5 /\ ParkPopulation /\ ParkSynth /\ ParkRerun /\ ParkSample /\ ParkTemp

\* _generate_sample_trips: _generate_driver_trips_fast for one driver; every
\* trip draws its own date, the other draws are taken alike for the trips of
\* one driver
GenerateDriverTripsFast ==
    /\ pc = "generate"
    /\ \E offsets \in [1..FastTrips -> DayOffsetChoices], shape \in TripShapes :
          trips_data' = trips_data \o
              [k \in 1..FastTrips |->
                  MakeTrip(trip_drivers[cursor + 1], k - 1, now, offsets[k],
                           shape)]
    /\ cursor' = IF cursor + 1 = Len(trip_drivers) THEN 0 ELSE cursor + 1
    /\ pc' = IF cursor + 1 = Len(trip_drivers) THEN "enrich" ELSE "generate"
    /\ UNCHANGED <<now, driver_month_groups, monthly_features_list,
                   skip_warnings, result>>
    /\ OnlyPipe

NextExtract ==
    \/ GenerateDriverTripsFast
    \/ EnrichTrip
    \/ GroupTrips
    \/ AggregateGroup
    \/ ApplySmartDefaults
    \/ FinalizeResults

SpecExtract == InitExtract /\ [][NextExtract]_vars

(***************************************************************************)
(* SpecRerun: _extract_monthly_features and _apply_smart_defaults run      *)
(* twice over one fixed list of enriched trips, the random module seeded   *)
(* with the same seed before each run                                      *)
(***************************************************************************)
\* the enriched trip lists the runs are given: one trip of every driver
FixedTripSets ==
    { [d \in 1..Len(drivers_df) |->
          EnrichTripFast(MakeTrip(drivers_df[d], 0, 365 + 40, offsets[d],
                                  shapes[d]), 0)] :
        offsets \in [1..Len(drivers_df) -> DayOffsetChoices],
        shapes  \in [1..Len(drivers_df) -> TripShapes] }

\* random.seed(seed): the generator starts over at the head of the stream
\* the seed determines
KeepPosition(pos) == pos
SeedPosition(pos) == 0

\* the loop of _apply_smart_defaults from record i on, with the draws of a
\* phone_plus_device record taken from the stream of the generator
RECURSIVE ApplySmartDefaultsFrom(_, _, _, _)
ApplySmartDefaultsFrom(features_list, i, stream, pos) ==
    IF i > Len(features_list) THEN [records |-> features_list, pos |-> pos]
    ELSE IF features_list[i].data_source = "phone_only"
    THEN ApplySmartDefaultsFrom(
             [features_list EXCEPT ![i] = SmartDefaults(@, stream[1])],
             i + 1, stream, pos)
    ELSE ApplySmartDefaultsFrom(
             [features_list EXCEPT ![i] = SmartDefaults(@, stream[pos + 1])],
             i + 1, stream, pos + 1)

InitRerun ==
    /\ now = 365 + 40
    /\ pc = "group"
    /\ cursor = 0
    /\ trips_data \in FixedTripSets
    /\ driver_month_groups = <<>>
    /\ monthly_features_list = <<>>
    /\ skip_warnings = <<>>
    /\ result = [status |-> "running"]
    /\ rng_stream \in [1..(2 * Len(drivers_df)) -> VehicleDraws]
    /\ rng_pos = 0
    /\ first_run = <<>>
    /\ ParkAgg /\ ParkScale /\ ParkEnrich /\ ParkThreads /\ ParkLoader
    /\ ParkStep5 /\ ParkPopulation /\ ParkSynth /\ ParkSample /\ ParkTemp

\* _apply_smart_defaults under the seeded generator
SeededSmartDefaults ==
    /\ pc = "aggregate"
    /\ cursor = Len(driver_month_groups)
    /\ LET out == ApplySmartDefaultsFrom(monthly_features_list, 1, rng_stream,
                                         rng_pos)
       IN  /\ monthly_features_list' = out.records
           /\ rng_pos' = out.pos
    /\ pc' = "finalize"
    /\ UNCHANGED <<now, skip_warnings, cursor, trips_data, driver_month_groups,
                   result, rng_stream, first_run>>
    /\ OnlyRerun

\* the second run: random.seed with the seed of the first run, then
\* _extract_monthly_features over the same trips
RerunAggregation ==
    /\ pc = "done"
    /\ first_run = <<>>
    /\ first_run' = <<result.records>>
    /\ rng_pos' = SeedPosition(rng_pos)
    /\ pc' = "group"
    /\ cursor' = 0
    /\ driver_month_groups' = <<>>
    /\ monthly_features_list' = <<>>
    /\ result' = [status |-> "running"]
    /\ UNCHANGED <<now, skip_warnings, trips_data, rng_stream>>
    /\ OnlyRerun

NextRerun ==
    \/ GroupTrips
    \/ AggregateGroup
    \/ SeededSmartDefaults
    \/ FinalizeResults
    \/ RerunAggregation

SpecRerun == InitRerun /\ [][NextRerun]_vars

(***************************************************************************)
(* SpecAgg: _calculate_monthly_aggregations applied to any list of         *)
(* TripData of one driver and month                                        *)
(***************************************************************************)
AggContext(road, weather, traffic, limit) ==
    [posted_speed_limit_mph |-> limit, road_type |-> road,
     weather_condition |-> weather, traffic_level |-> traffic]

\* the contextual_data lists the inputs are drawn from
AggContexts ==
    { <<>>,
      <<AggContext("highway", "rain", "heavy", 55),
        AggContext("arterial", "clear", "light", 35)>>,
      <<AggContext("highway", "snow", "moderate", 65),
        AggContext("highway", "clear", "heavy", 55),
        AggContext("residential", "cloudy", "light", 25)>> }

\* the TripData the inputs are drawn from: a Friday and a Monday of
\* 2022-02, start hours around the night window, zero and nonzero mileage,
\* no or three events, three context lists
AggTripInputs ==
    { [trip_id    |-> <<Driver2.driver_id, 0>>,
       driver_id  |-> Driver2.driver_id,
       start_day  |-> day,
       start_hour |-> hour,
       gps_points |-> <<F(30), F(62)>>,
       behavioral_events |-> events,
       contextual_data   |-> contexts,
       data_source |-> Driver2.data_source,
       total_distance_miles |-> miles,
       duration_minutes     |-> F(10),
       screen_on_duration_minutes |-> F(6),
       call_duration_minutes      |-> F(2),
       handheld_duration_minutes  |-> F(5)] :
      day \in {399, 402}, hour \in {6, 7, 22},
      events \in {<<>>, <<"hard_brake", "rapid_accel", "speeding">>},
      contexts \in AggContexts,
      miles \in {0, Hundredths(368)} }

InitAgg ==
    /\ now \in {399}
    /\ agg_trips = <<>>
    /\ agg_status = "input"
    /\ agg_out = <<>>
    /\ ParkPipe /\ ParkScale /\ ParkEnrich /\ ParkThreads /\ ParkLoader
    /\ ParkStep5 /\ ParkPopulation /\ ParkSynth /\ ParkRerun /\ ParkSample /\ ParkTemp

\* one more trip of the list handed to the function
LoadTrip ==
    /\ agg_status = "input"
    /\ Len(agg_trips) < MaxAggTrips
    /\ \E trip \in AggTripInputs : agg_trips' = Append(agg_trips, trip)
    /\ UNCHANGED <<agg_status, agg_out>>
    /\ OnlyAgg

\* the call of _calculate_monthly_aggregations
Aggregate ==
    /\ agg_status = "input"
    /\ IF AggregationRaises(agg_trips)
       THEN agg_status' = "raised" /\ agg_out' = <<>>
       ELSE /\ agg_status' = "returned"
            /\ agg_out' = <<CalculateMonthlyAggregations(
                               Driver2.driver_id, "2022-02", agg_trips, Driver2)>>
    /\ UNCHANGED agg_trips
    /\ OnlyAgg

NextAgg == LoadTrip \/ Aggregate

SpecAgg == InitAgg /\ [][NextAgg]_vars

(***************************************************************************)
(* SpecScale: ProductionScalePipeline._generate_large_scale_data           *)
(***************************************************************************)
\* the days datetime.now() is drawn from
ScaleNowChoices == 425..455

\* probabilities are kept finer than Scale: n stands for n / ProbUnit
ProbUnit == 100 * Scale

\* random.uniform(lo, hi), drawn at one of its ends
Uniform(draw, lo, hi) == IF draw = "low" THEN lo ELSE hi

\* persona_params of _generate_monthly_record
PersonaParams(persona_type) ==
    IF persona_type = "safe_driver"
    THEN [trip_mult |-> Hundredths(80), risk_mult |-> Hundredths(30),
          phone_mult |-> Hundredths(40)]
    ELSE IF persona_type = "risky_driver"
    THEN [trip_mult |-> Hundredths(130), risk_mult |-> Hundredths(250),
          phone_mult |-> Hundredths(180)]
    ELSE [trip_mult |-> Hundredths(100), risk_mult |-> Hundredths(100),
          phone_mult |-> Hundredths(100)]

\* _generate_monthly_record; late_draw is the draw of random.uniform(0, 10)
\* for pct_miles_late_night_weekend, draw stands for every other draw
GenerateMonthlyRecordOf(driver, month, month_offset, draw, late_draw) ==
    LET params        == PersonaParams(driver.persona_type)
        month_num     == MonthNum(month)
        winter_factor == IF month_num \in {12, 1, 2} THEN Hundredths(120) ELSE F(1)
        summer_factor == IF month_num \in {6, 7, 8} THEN Hundredths(90) ELSE F(1)
        time_trend    == F(1) - month_offset
                            * FMul(Hundredths(2),
                                   Uniform(draw, Hundredths(50), Hundredths(150)))
    IN
    [driver_id |-> driver.driver_id, month |-> month,
     total_trips |-> IntOf(FMul(FMul(F(45), params.trip_mult),
                                Uniform(draw, Hundredths(70), Hundredths(130)))),
     total_drive_time_hours |-> FMul(Uniform(draw, F(25), F(80)), params.trip_mult),
     total_miles_driven |-> FMul(Uniform(draw, F(800), F(2500)), params.trip_mult),
     avg_speed_mph |-> FMul(Uniform(draw, F(22), F(35)), driver.avg_speed_multiplier),
     max_speed_mph |-> FMul(Uniform(draw, F(45), F(85)), driver.avg_speed_multiplier),
     avg_jerk_rate |-> FMul(driver.jerk_rate_multiplier,
                            Uniform(draw, Hundredths(20), Hundredths(150))),
     hard_brake_rate_per_100_miles |->
         FMul(FMul(FMul(driver.hard_brake_rate_base, params.risk_mult),
                   winter_factor), time_trend),
     rapid_accel_rate_per_100_miles |->
         FMul(FMul(driver.rapid_accel_rate_base, params.risk_mult), time_trend),
     harsh_cornering_rate_per_100_miles |->
         FMul(driver.harsh_corner_rate_base, params.risk_mult),
     swerving_events_per_100_miles |->
         FMul(Uniform(draw, 0, Hundredths(50)), params.risk_mult),
     speeding_rate_per_100_miles |->
         FMul(FMul(driver.speeding_rate_base, params.risk_mult), summer_factor),
     max_speed_over_limit_mph |-> FMul(Uniform(draw, 0, F(25)), params.risk_mult),
     pct_miles_night |->
         FMul(driver.night_driving_pct_base * 100,
              Uniform(draw, Hundredths(50), Hundredths(150))),
     pct_miles_late_night_weekend |->
         FMul(Uniform(late_draw, 0, F(10)), params.risk_mult),
     pct_miles_weekday_rush_hour |-> Uniform(draw, F(5), F(35)),
     pct_trip_time_screen_on |->
         FMul(driver.phone_usage_pct_base * 100, params.phone_mult),
     handheld_events_rate_per_hour |->
         FMul(Uniform(draw, 0, F(3)), params.phone_mult),
     pct_trip_time_on_call_handheld |->
         FMul(Uniform(draw, 0, F(5)), params.phone_mult),
     avg_engine_rpm |-> IF driver.data_source = "phone_only" THEN F(2100)
                        ELSE Uniform(draw, F(1800), F(2500)),
     has_dtc_codes |-> IF driver.data_source = "phone_plus_device"
                       THEN draw = "high" ELSE FALSE,
     airbag_deployment_flag |-> FALSE,
     driver_age |-> driver.driver_age,
     vehicle_age |-> driver.vehicle_age,
     prior_at_fault_accidents |-> driver.prior_at_fault_accidents,
     years_licensed |-> driver.years_licensed,
     data_source |-> driver.data_source,
     pct_miles_highway |-> Uniform(draw, F(10), F(60)),
     pct_miles_urban |-> Uniform(draw, F(40), F(90)),
     pct_miles_in_rain_or_snow |-> FMul(winter_factor, Uniform(draw, F(5), F(25))),
     pct_miles_in_heavy_traffic |-> Uniform(draw, F(15), F(45))]

InitScale ==
    /\ now \in ScaleNowChoices
    /\ scale_cursor = [driver |-> 1, month_offset |-> 0]
    /\ monthly_records = <<>>
    /\ ParkPipe /\ ParkAgg /\ ParkEnrich /\ ParkThreads /\ ParkLoader
    /\ ParkStep5 /\ ParkPopulation /\ ParkSynth /\ ParkRerun /\ ParkSample /\ ParkTemp

\* one iteration of the loops of _generate_large_scale_data, with all the
\* draws of a record taken at the same end of their ranges
GenerateMonthlyRecord ==
    /\ scale_cursor.driver <= Len(drivers_df)
    /\ LET driver     == drivers_df[scale_cursor.driver]
           base_date  == now - MonthsCount * 30
           month_date == base_date + scale_cursor.month_offset * 30
           month_str  == StrfYm(month_date)
       IN  \E draw \in {"low", "high"} :
              monthly_records' = Append(monthly_records,
                  GenerateMonthlyRecordOf(driver, month_str,
                                          scale_cursor.month_offset, draw,
                                          draw))
    /\ scale_cursor' =
          IF scale_cursor.month_offset + 1 < MonthsCount
          THEN [scale_cursor EXCEPT !.month_offset = @ + 1]
          ELSE [driver |-> scale_cursor.driver + 1, month_offset |-> 0]
    /\ UNCHANGED now
    /\ OnlyScale

\* min(monthly_prob * risk_multiplier, 0.25)
Uncapped(prob) == prob
CapProbability(prob) == IF prob < (25 * ProbUnit) \div 100 THEN prob
                        ELSE (25 * ProbUnit) \div 100

\* the persona_type drivers.csv stores for the driver of a row
StoredPersona(row) ==
    LET known == {i \in 1..Len(drivers_df) :
                     drivers_df[i].driver_id = row.driver_id}
    IN  IF known = {} THEN "average_driver"
        ELSE drivers_df[CHOOSE i \in known : TRUE].persona_type

\* persona of calculate_claim_probability: the value read from driver_info
\* is overwritten by the if / elif / else over accidents and age
RiskPersona(row) ==
    IF row.prior_at_fault_accidents = 0 /\ row.driver_age > 30
    THEN "safe_driver"
    ELSE IF row.prior_at_fault_accidents > 1 \/ row.driver_age < 25
    THEN "risky_driver" ELSE "average_driver"

\* calculate_claim_probability of _add_realistic_claims; the probability is
\* in units of 1 / ProbUnit, the risk multiplier in units of 1 / Scale
CalculateClaimProbability(row) ==
    LET persona == RiskPersona(row)
        base_annual_prob ==
            IF persona = "safe_driver" THEN (3 * ProbUnit) \div 100
            ELSE IF persona = "risky_driver" THEN (15 * ProbUnit) \div 100
            ELSE (7 * ProbUnit) \div 100
        monthly_prob == IDiv(base_annual_prob, 12)
        m1 == FMul(F(1), F(1) + FMul(row.hard_brake_rate_per_100_miles,
                                     Hundredths(30)))
        m2 == FMul(m1, F(1) + FMul(row.rapid_accel_rate_per_100_miles,
                                   Hundredths(20)))
        m3 == FMul(m2, F(1) + FMul(row.speeding_rate_per_100_miles,
                                   Hundredths(40)))
        m4 == FMul(m3, F(1) + FMul(IDiv(row.pct_trip_time_screen_on, 100),
                                   Hundredths(50)))
        m5 == IF row.driver_age < 25 THEN FMul(m4, Hundredths(180))
              ELSE IF row.driver_age > 65 THEN FMul(m4, Hundredths(130))
              ELSE m4
        m6 == IF row.vehicle_age > 15 THEN FMul(m5, Hundredths(120)) ELSE m5
        m7 == FMul(m6, F(1) + row.prior_at_fault_accidents * Hundredths(50))
        risk_multiplier ==
              FMul(m7, F(1) + FMul(IDiv(row.pct_miles_night, 100),
                                   Hundredths(30)))
    IN  CapProbability(FMul(monthly_prob, risk_multiplier))

\* _add_realistic_claims, once the records are in the DataFrame; draws tells
\* for each record whether random.random() falls below a positive
\* probability
AddRealisticClaims ==
    /\ scale_cursor.driver > Len(drivers_df)
    /\ monthly_records # <<>>
    /\ "claim_probability" \notin DOMAIN monthly_records[1]
    /\ \E draws \in [1..Len(monthly_records) -> BOOLEAN] :
          monthly_records' =
              [i \in 1..Len(monthly_records) |->
                  LET prob == CalculateClaimProbability(monthly_records[i])
                  IN  monthly_records[i] @@
                      [claim_probability   |-> prob,
                       had_claim_in_period |-> draws[i] /\ prob > 0]]
    /\ UNCHANGED <<now, scale_cursor>>
    /\ OnlyScale

NextScale == GenerateMonthlyRecord \/ AddRealisticClaims

SpecScale == InitScale /\ [][NextScale]_vars

(***************************************************************************)
(* SpecRecord: _generate_monthly_record for one driver and month, the draw *)
(* of the late-night share taken apart from the other draws                *)
(***************************************************************************)
InitRecord ==
    /\ now \in ScaleNowChoices
    /\ scale_cursor \in [driver : 1..Len(drivers_df),
                          month_offset : 0..(MonthsCount - 1)]
    /\ monthly_records = <<>>
    /\ ParkPipe /\ ParkAgg /\ ParkEnrich /\ ParkThreads /\ ParkLoader
    /\ ParkStep5 /\ ParkPopulation /\ ParkSynth /\ ParkRerun /\ ParkSample
    /\ ParkTemp

\* monthly_record = self._generate_monthly_record(driver, month_str,
\* month_offset)
GenerateOneRecord ==
    /\ monthly_records = <<>>
    /\ LET driver     == drivers_df[scale_cursor.driver]
           base_date  == now - MonthsCount * 30
           month_date == base_date + scale_cursor.month_offset * 30
       IN  \E draw \in {"low", "high"}, late_draw \in {"low", "high"} :
              monthly_records' =
                  <<GenerateMonthlyRecordOf(driver, StrfYm(month_date),
                                            scale_cursor.month_offset, draw,
                                            late_draw)>>
    /\ UNCHANGED <<now, scale_cursor>>
    /\ OnlyScale

NextRecord == GenerateOneRecord

SpecRecord == InitRecord /\ [][NextRecord]_vars

(***************************************************************************)
(* SpecLabel: _add_realistic_claims as a function of the DataFrame it is   *)
(* handed: two rows of any drivers, ages, accident counts and brake rates  *)
(***************************************************************************)
\* the rows the DataFrame is drawn from: a generated record of the first
\* driver with the driver, the age, the accident history and the
\* hard-brake rate replaced
LabelRows ==
    { [GenerateMonthlyRecordOf(Driver1, "2022-01", 0, "low", "low") EXCEPT
          !.driver_id = drivers_df[d].driver_id,
          !.driver_age = age,
          !.prior_at_fault_accidents = accidents,
          !.hard_brake_rate_per_100_miles = brake] :
        d \in 1..Len(drivers_df), age \in {22, 45, 70}, accidents \in {0, 2},
        brake \in {Hundredths(10), Hundredths(880)} }

InitLabel ==
    /\ now \in NowChoices
    /\ scale_cursor = [driver |-> Len(drivers_df) + 1, month_offset |-> 0]
    /\ monthly_records \in [1..2 -> LabelRows]
    /\ ParkPipe /\ ParkAgg /\ ParkEnrich /\ ParkThreads /\ ParkLoader
    /\ ParkStep5 /\ ParkPopulation /\ ParkSynth /\ ParkRerun /\ ParkSample /\ ParkTemp

NextLabel == AddRealisticClaims

SpecLabel == InitLabel /\ [][NextLabel]_vars

(***************************************************************************)
(* SpecEnrich: TripSimulator.generate_driver_trips for one trip with real  *)
(* API enrichment, followed by the monthly aggregation of that trip        *)
(***************************************************************************)
\* num_points = max(30, int(profile.duration_minutes * 2)) for a trip of
\* at most 15 minutes
MinGpsPoints == 30

\* the speed_mph of the GPS points of the trip
SimGpsPoints == [i \in 1..MinGpsPoints |-> IF i % 2 = 0 THEN F(58) ELSE F(52)]

\* the 1-based indices of gps_points[::max(1, len(gps_points) // 10)]
EveryPoint(gps_points) == [i \in 1..Len(gps_points) |-> i]
SamplePoints(gps_points) ==
    SliceStep([i \in 1..Len(gps_points) |-> i], Max2(1, Len(gps_points) \div 10))

NumSamples == Len(SamplePoints(SimGpsPoints))

\* what a lookup does: it returns a value, returns None, or raises
LookupOutcomes == {"ok", "none", "raise"}

\* The behaviour of the providers during the trip: the weather and the
\* speed-limit lookup are degraded for the sample points first..last and
\* work outside of them; traffic is what random.choice draws at rush hour.
ProviderBehaviours ==
    { [weather |-> w, osm |-> o, first |-> a, last |-> b, traffic |-> t] :
        w \in LookupOutcomes, o \in LookupOutcomes,
        a \in 1..NumSamples, b \in 1..NumSamples,
        t \in {"moderate", "heavy"} }

\* the outcome of a provider's lookup for the k-th sample point
OutcomeAt(behaviour, provider, k) ==
    IF behaviour.first <= k /\ k <= behaviour.last
    THEN behaviour[provider] ELSE "ok"

\* what the loaded weather and speed-limit data hold
ProviderWeather == "rain"
ProviderSpeedLimit == 55

\* _classify_road_from_speed_limit
ClassifyRoadFromSpeedLimit(speed_limit) ==
    IF speed_limit >= 55 THEN "highway"
    ELSE IF speed_limit >= 35 THEN "arterial" ELSE "residential"

\* ContextualData(timestamp=..., location=point): every other field None
\* (None is "none" for strings and 0 for the speed limit)
NewContext ==
    [posted_speed_limit_mph |-> 0, road_type |-> "none",
     weather_condition |-> "none", traffic_level |-> "none"]

\* a loop whose handler catches nothing
CatchesNothing(exc) == FALSE

\* except Exception: what the handler of the enrichment loop catches
Catches(exc) == exc = "Exception"

\* The body of the try block of _enrich_with_real_apis for the k-th sample
\* point: the context appended, or the exception raised on the way.
EnrichPointOf(behaviour, k) ==
    LET w == OutcomeAt(behaviour, "weather", k)
        o == OutcomeAt(behaviour, "osm", k)
        c1 == IF w = "ok"
              THEN [NewContext EXCEPT !.weather_condition = ProviderWeather]
              ELSE NewContext
        c2 == IF o = "ok"
              THEN [c1 EXCEPT !.posted_speed_limit_mph = ProviderSpeedLimit,
                              !.road_type =
                                  ClassifyRoadFromSpeedLimit(ProviderSpeedLimit)]
              ELSE c1
    IN  IF w = "raise" \/ o = "raise"
        THEN [raised |-> "Exception", context |-> <<>>]
        ELSE [raised |-> "no",
              context |-> <<[c2 EXCEPT !.traffic_level = behaviour.traffic]>>]

\* TripData(...) of _generate_trip_data: a Friday-morning trip of Driver2
SimTrip(contexts) ==
    [trip_id    |-> <<Driver2.driver_id, "trip", 0>>,
     driver_id  |-> Driver2.driver_id,
     start_day  |-> 399,
     start_hour |-> 8,
     gps_points |-> SimGpsPoints,
     behavioral_events |-> <<"hard_brake">>,
     contextual_data   |-> contexts,
     data_source |-> Driver2.data_source,
     total_distance_miles |-> Hundredths(1234),
     duration_minutes     |-> F(15),
     screen_on_duration_minutes |-> F(6),
     call_duration_minutes      |-> F(2),
     handheld_duration_minutes  |-> F(5)]

InitEnrich ==
    /\ now \in {399}
    /\ enrich_pc = "enrich"
    /\ providers \in ProviderBehaviours
    /\ point_idx = 0
    /\ contextual_data = <<>>
    /\ driver_trips = <<>>
    /\ trip_features = <<>>
    /\ ParkPipe /\ ParkAgg /\ ParkScale /\ ParkThreads /\ ParkLoader
    /\ ParkStep5 /\ ParkPopulation /\ ParkSynth /\ ParkRerun /\ ParkSample /\ ParkTemp

\* _enrich_with_real_apis: one iteration of the loop over sample_points.
\* An exception the handler catches skips the point; one it does not catch
\* leaves _generate_trip_data and is caught by generate_driver_trips, which
\* skips the trip.
EnrichPoint ==
    /\ enrich_pc = "enrich"
    /\ point_idx < NumSamples
    /\ LET r == EnrichPointOf(providers, point_idx + 1)
       IN  IF r.raised = "no"
           THEN /\ contextual_data' = contextual_data \o r.context
                /\ point_idx' = point_idx + 1
                /\ UNCHANGED enrich_pc
           ELSE IF Catches(r.raised)
           THEN /\ point_idx' = point_idx + 1
                /\ UNCHANGED <<contextual_data, enrich_pc>>
           ELSE /\ enrich_pc' = "trip_failed"
                /\ UNCHANGED <<contextual_data, point_idx>>
    /\ UNCHANGED <<providers, driver_trips, trip_features>>
    /\ OnlyEnrich

\* _generate_trip_data returns the TripData and generate_driver_trips
\* appends it
ProduceTrip ==
    /\ enrich_pc = "enrich"
    /\ point_idx = NumSamples
    /\ driver_trips' = Append(driver_trips, SimTrip(contextual_data))
    /\ enrich_pc' = "produced"
    /\ UNCHANGED <<providers, point_idx, contextual_data, trip_features>>
    /\ OnlyEnrich

\* _calculate_monthly_aggregations of the month of the trip
AggregateTrips ==
    /\ enrich_pc = "produced"
    /\ IF AggregationRaises(driver_trips)
       THEN enrich_pc' = "aggregation_failed" /\ UNCHANGED trip_features
       ELSE /\ enrich_pc' = "aggregated"
            /\ trip_features' = <<CalculateMonthlyAggregations(
                                     Driver2.driver_id, "2022-02",
                                     driver_trips, Driver2)>>
    /\ UNCHANGED <<providers, point_idx, contextual_data, driver_trips>>
    /\ OnlyEnrich

NextEnrich == EnrichPoint \/ ProduceTrip \/ AggregateTrips

SpecEnrich == InitEnrich /\ [][NextEnrich]_vars

(***************************************************************************)
(* SpecSample: the sample of _enrich_with_real_apis for a GPS sequence of  *)
(* any length                                                              *)
(***************************************************************************)
InitSample ==
    /\ now = 365 + 40
    /\ gps_len \in 1..MaxGpsLen
    /\ sample_points = <<>>
    /\ ParkPipe /\ ParkAgg /\ ParkScale /\ ParkEnrich /\ ParkThreads
    /\ ParkLoader /\ ParkStep5 /\ ParkPopulation /\ ParkSynth /\ ParkRerun /\ ParkTemp

\* sample_points = gps_points[::max(1, len(gps_points) // 10)]
SampleGpsPoints ==
    /\ sample_points = <<>>
    /\ sample_points' = SamplePoints([i \in 1..gps_len |-> i])
    /\ UNCHANGED gps_len
    /\ OnlySample

NextSample == SampleGpsPoints

SpecSample == InitSample /\ [][NextSample]_vars

(***************************************************************************)
(* SpecThreads: threads calling _enrich_with_real_apis of one              *)
(* TripSimulator, each for the sample points of its own trip               *)
(***************************************************************************)
Threads == 1..NumThreads

\* an acquire that returns whether the lock is free or not
LockIgnored(lock) == TRUE

\* threading.Lock.acquire returns only when the lock is free
LockFree(lock) == lock = 0

InitThreads ==
    /\ now \in {399}
    /\ thread_pc = [t \in Threads |-> "acquire"]
    /\ thread_point = [t \in Threads |-> 0]
    /\ thread_count = [t \in Threads |-> 0]
    /\ api_lock = 0
    /\ sleep_left = 0
    /\ api_call_count = 0
    /\ progress_calls = 0
    /\ since_dispatch = ApiDelay
    /\ last_gap = ApiDelay
    /\ ParkPipe /\ ParkAgg /\ ParkScale /\ ParkEnrich /\ ParkLoader
    /\ ParkStep5 /\ ParkPopulation /\ ParkSynth /\ ParkRerun /\ ParkSample /\ ParkTemp

\* with self._api_lock: entering, and calling time.sleep(self.api_delay)
AcquireApiLock(t) ==
    /\ thread_pc[t] = "acquire"
    /\ LockFree(api_lock)
    /\ api_lock' = t
    /\ sleep_left' = ApiDelay
    /\ thread_pc' = [thread_pc EXCEPT ![t] = "sleep"]
    /\ UNCHANGED <<thread_point, thread_count, api_call_count, progress_calls,
                   since_dispatch, last_gap>>
    /\ OnlyThreads

\* one clock tick passes
Tick ==
    /\ thread_pc # <<>>
    /\ sleep_left > 0 \/ since_dispatch < ApiDelay
    /\ sleep_left' = IF sleep_left > 0 THEN sleep_left - 1 ELSE 0
    /\ since_dispatch' = IF since_dispatch < ApiDelay
                         THEN since_dispatch + 1 ELSE since_dispatch
    /\ UNCHANGED <<thread_pc, thread_point, thread_count, api_lock,
                   api_call_count, progress_calls, last_gap>>
    /\ OnlyThreads

\* time.sleep has returned; self._api_call_count += 1 reads the counter
LoadCount(t) ==
    /\ thread_pc[t] = "sleep"
    /\ sleep_left = 0
    /\ thread_count' = [thread_count EXCEPT ![t] = api_call_count]
    /\ thread_pc' = [thread_pc EXCEPT ![t] = "store"]
    /\ UNCHANGED <<thread_point, api_lock, sleep_left, api_call_count,
                   progress_calls, since_dispatch, last_gap>>
    /\ OnlyThreads

\* self._api_call_count += 1 writes the counter; the value the thread had
\* read is dropped
StoreCount(t) ==
    /\ thread_pc[t] = "store"
    /\ api_call_count' = thread_count[t] + 1
    /\ thread_count' = [thread_count EXCEPT ![t] = 0]
    /\ thread_pc' = [thread_pc EXCEPT ![t] = "release"]
    /\ UNCHANGED <<thread_point, api_lock, sleep_left,
                   progress_calls, since_dispatch, last_gap>>
    /\ OnlyThreads

\* with self._api_lock: leaving
ReleaseApiLock(t) ==
    /\ thread_pc[t] = "release"
    /\ api_lock' = IF api_lock = t THEN 0 ELSE api_lock
    /\ thread_pc' = [thread_pc EXCEPT ![t] = "dispatch"]
    /\ UNCHANGED <<thread_point, thread_count, sleep_left, api_call_count,
                   progress_calls, since_dispatch, last_gap>>
    /\ OnlyThreads

\* the next step of a thread that leaves the loop body at a sample point
NextPoint(t) == IF thread_point[t] + 1 = PointsPerThread
                THEN "done" ELSE "acquire"

\* the weather and speed-limit lookups of the sample point are dispatched;
\* when one raises, except Exception logs it and continues with the next
\* point, past the progress update
DispatchLookups(t) ==
    /\ thread_pc[t] = "dispatch"
    /\ last_gap' = since_dispatch
    /\ since_dispatch' = 0
    /\ \E outcome \in {"ok", "raise"} :
          IF outcome = "ok"
          THEN /\ thread_pc' = [thread_pc EXCEPT ![t] = "progress"]
               /\ thread_point' = thread_point
          ELSE /\ thread_pc' = [thread_pc EXCEPT ![t] = NextPoint(t)]
               /\ thread_point' = [thread_point EXCEPT ![t] = @ + 1]
    /\ UNCHANGED <<thread_count, api_lock, sleep_left, api_call_count,
                   progress_calls>>
    /\ OnlyThreads

\* self.progress['api_calls_made'] = self._api_call_count reads the counter
LoadProgress(t) ==
    /\ thread_pc[t] = "progress"
    /\ thread_count' = [thread_count EXCEPT ![t] = api_call_count]
    /\ thread_pc' = [thread_pc EXCEPT ![t] = "track"]
    /\ UNCHANGED <<thread_point, api_lock, sleep_left, api_call_count,
                   progress_calls, since_dispatch, last_gap>>
    /\ OnlyThreads

\* self.progress['api_calls_made'] = self._api_call_count stores what it
\* read, and the next iteration of the loop
TrackProgress(t) ==
    /\ thread_pc[t] = "track"
    /\ progress_calls' = thread_count[t]
    /\ thread_count' = [thread_count EXCEPT ![t] = 0]
    /\ thread_point' = [thread_point EXCEPT ![t] = @ + 1]
    /\ thread_pc' = [thread_pc EXCEPT ![t] = NextPoint(t)]
    /\ UNCHANGED <<api_lock, sleep_left, api_call_count,
                   since_dispatch, last_gap>>
    /\ OnlyThreads

NextThreads ==
    \/ Tick
    \/ \E t \in Threads :
          \/ AcquireApiLock(t)
          \/ LoadCount(t)
          \/ StoreCount(t)
          \/ ReleaseApiLock(t)
          \/ DispatchLookups(t)
          \/ LoadProgress(t)
          \/ TrackProgress(t)

SpecThreads == InitThreads /\ [][NextThreads]_vars

(***************************************************************************)
(* SpecLoader: the download methods of one USScaleDownloader, invoked      *)
(* NumCalls times concurrently                                             *)
(***************************************************************************)
\* self._api_locks
OpenMeteoLimit == 10
OverpassLimit == 2
TrafficLimit == 5

Providers == {"openmeteo", "overpass", "traffic"}

Limit(provider) ==
    IF provider = "openmeteo" THEN OpenMeteoLimit
    ELSE IF provider = "overpass" THEN OverpassLimit ELSE TrafficLimit

\* max_workers of USScaleDownloader, and of the executor of
\* download_us_speed_limits
MaxWorkers == 5
OsmWorkers == 2

\* the regions download_us_weather_data submits: all but alaska_hawaii
RegionsPerCall == 5
\* traffic_sources of download_us_traffic_data
TrafficCities == 3

\* the worker threads of the executors of all invocations
Workers(provider) ==
    IF provider = "openmeteo" THEN NumCalls * MaxWorkers
    ELSE IF provider = "overpass" THEN NumCalls * OsmWorkers
    ELSE NumCalls

\* the tasks of all invocations
Tasks(provider) ==
    IF provider = "openmeteo" THEN NumCalls * RegionsPerCall
    ELSE IF provider = "overpass" THEN NumCalls * StatesPerCall
    ELSE NumCalls * TrafficCities

\* a semaphore whose acquire never blocks
SemaphoreIgnored(value) == TRUE

\* threading.Semaphore.acquire returns only when the value is positive
SemaphoreAvailable(value) == value > 0

InitLoader ==
    /\ now \in {399}
    /\ download \in Providers
    /\ remaining = Tasks(download)
    /\ waiting = 0 /\ ready = 0 /\ calling = 0 /\ finishing = 0 /\ finished = 0
    /\ semaphore = Limit(download)
    /\ call_failed = FALSE
    /\ ParkPipe /\ ParkAgg /\ ParkScale /\ ParkEnrich /\ ParkThreads
    /\ ParkStep5 /\ ParkPopulation /\ ParkSynth /\ ParkRerun /\ ParkSample /\ ParkTemp

\* a worker thread of an executor starts _download_region_weather or
\* _download_state_speed_limits and reaches its with statement
StartTask ==
    /\ download \in {"openmeteo", "overpass"}
    /\ remaining > 0
    /\ waiting + ready + calling + finishing < Workers(download)
    /\ remaining' = remaining - 1
    /\ waiting' = waiting + 1
    /\ UNCHANGED <<download, ready, calling, finishing, finished, semaphore,
                   call_failed>>
    /\ OnlyLoader

\* with self._api_locks[...]: entering
AcquireSemaphore ==
    /\ waiting > 0
    /\ SemaphoreAvailable(semaphore)
    /\ semaphore' = semaphore - 1
    /\ waiting' = waiting - 1
    /\ ready' = ready + 1
    /\ UNCHANGED <<download, remaining, calling, finishing, finished,
                   call_failed>>
    /\ OnlyLoader

\* base_downloader.download_weather_data or download_osm_speed_limits is
\* called: the request is in flight
BeginRequest ==
    /\ ready > 0
    /\ ready' = ready - 1
    /\ calling' = calling + 1
    /\ UNCHANGED <<download, remaining, waiting, finishing, finished,
                   semaphore, call_failed>>
    /\ OnlyLoader

\* The request returns or raises.  A weather task goes on to its next city
\* or has none left; a speed-limit task makes one request only.  An
\* exception is caught inside the with statement.
EndRequest ==
    /\ calling > 0
    /\ calling' = calling - 1
    /\ \E failed \in BOOLEAN, more \in BOOLEAN :
          /\ call_failed' = (call_failed \/ failed)
          /\ IF download = "openmeteo" /\ more
             THEN ready' = ready + 1 /\ UNCHANGED finishing
             ELSE finishing' = finishing + 1 /\ UNCHANGED ready
    /\ UNCHANGED <<download, remaining, waiting, finished, semaphore>>
    /\ OnlyLoader

\* _download_state_speed_limits returns before any request when the state
\* has no bounding box
SkipState ==
    /\ download = "overpass"
    /\ ready > 0
    /\ ready' = ready - 1
    /\ finishing' = finishing + 1
    /\ UNCHANGED <<download, remaining, waiting, calling, finished, semaphore,
                   call_failed>>
    /\ OnlyLoader

\* with self._api_locks[...]: leaving, by a return or by an exception
ReleaseSemaphore ==
    /\ finishing > 0
    /\ finishing' = finishing - 1
    /\ finished' = finished + 1
    /\ semaphore' = semaphore + 1
    /\ UNCHANGED <<download, remaining, waiting, ready, calling, call_failed>>
    /\ OnlyLoader

\* download_us_traffic_data: one city of its loop; _download_city_traffic
\* makes no request and returns None, the failure is caught
DownloadCityTraffic ==
    /\ download = "traffic"
    /\ remaining > 0
    /\ remaining' = remaining - 1
    /\ finished' = finished + 1
    /\ call_failed' = TRUE
    /\ UNCHANGED <<download, waiting, ready, calling, finishing, semaphore>>
    /\ OnlyLoader

NextLoader ==
    \/ StartTask
    \/ AcquireSemaphore
    \/ BeginRequest
    \/ EndRequest
    \/ SkipState
    \/ ReleaseSemaphore
    \/ DownloadCityTraffic

SpecLoader == InitLoader /\ [][NextLoader]_vars

(***************************************************************************)
(* SpecTemp: the _download_state_speed_limits tasks of one                 *)
(* download_us_speed_limits and the temp file they share                   *)
(***************************************************************************)
TempTasks == 1..NumTempTasks

\* tasks the executor runs at a time: ThreadPoolExecutor(max_workers=2),
\* inside Semaphore(2)
RunningTasks == {t \in TempTasks : temp_pc[t] \in {"running", "saved", "written"}}

InitTemp ==
    /\ now = 365 + 40
    /\ temp_pc = [t \in TempTasks |-> "queued"]
    /\ temp_file = 0
    /\ state_files = [t \in TempTasks |-> 0]
    /\ temp_missed = {}
    /\ ParkPipe /\ ParkAgg /\ ParkScale /\ ParkEnrich /\ ParkThreads
    /\ ParkLoader /\ ParkStep5 /\ ParkPopulation /\ ParkSynth /\ ParkRerun
    /\ ParkSample

\* a worker takes the task and enters the semaphore
StartStateTask(t) ==
    /\ temp_pc[t] = "queued"
    /\ Cardinality(RunningTasks) < OsmWorkers
    /\ Cardinality(RunningTasks) < OverpassLimit
    /\ temp_pc' = [temp_pc EXCEPT ![t] = "running"]
    /\ UNCHANGED <<temp_file, state_files, temp_missed>>
    /\ OnlyTemp

\* download_osm_speed_limits(output_dir / "temp", bbox): it writes
\* temp/osm_speed_limits_real.parquet and returns True, or finds no
\* elements and returns False
DownloadOsmSpeedLimits(t) ==
    /\ temp_pc[t] = "running"
    /\ \E success \in BOOLEAN :
          IF success
          THEN /\ temp_file' = t
               /\ temp_pc' = [temp_pc EXCEPT ![t] = "saved"]
          ELSE /\ temp_file' = temp_file
               /\ temp_pc' = [temp_pc EXCEPT ![t] = "done"]
    /\ UNCHANGED <<state_files, temp_missed>>
    /\ OnlyTemp

\* if temp_file.exists(): read it, add the state, write the state file
WriteStateFile(t) ==
    /\ temp_pc[t] = "saved"
    /\ IF temp_file # 0
       THEN /\ state_files' = [state_files EXCEPT ![t] = temp_file]
            /\ temp_pc' = [temp_pc EXCEPT ![t] = "written"]
            /\ temp_missed' = temp_missed
       ELSE /\ temp_missed' = temp_missed \cup {t}
            /\ temp_pc' = [temp_pc EXCEPT ![t] = "done"]
            /\ state_files' = state_files
    /\ UNCHANGED temp_file
    /\ OnlyTemp

\* temp_file.unlink(), a FileNotFoundError of which is caught by the
\* except Exception of the task
UnlinkTempFile(t) ==
    /\ temp_pc[t] = "written"
    /\ temp_file' = 0
    /\ temp_pc' = [temp_pc EXCEPT ![t] = "done"]
    /\ UNCHANGED <<state_files, temp_missed>>
    /\ OnlyTemp

NextTemp ==
    \/ \E t \in TempTasks : StartStateTask(t)
    \/ \E t \in TempTasks : DownloadOsmSpeedLimits(t)
    \/ \E t \in TempTasks : WriteStateFile(t)
    \/ \E t \in TempTasks : UnlinkTempFile(t)

SpecTemp == InitTemp /\ [][NextTemp]_vars

(***************************************************************************)
(* SpecStep5: Step5Orchestrator.execute_step_5 over a portfolio, with      *)
(* TripSimulator.generate_driver_trips run for every driver                *)
(***************************************************************************)
\* the rows of drivers.csv after drivers_df.head(num_drivers)
Step5Drivers == [i \in 1..NumStep5Drivers |-> drivers_df[((i - 1) % Len(drivers_df)) + 1]]

\* the months argument of execute_step_5: main passes 1, 6, 12 or 18, or
\* the int the user types under the custom configuration
Step5MonthsChoices == {-1, 0, 1}

\* trip_frequencies[persona_type]: (35, 50), (40, 60) and (45, 70) trips a
\* month in the source, scaled down to one short range with min < max
trip_frequencies(persona_type) == <<MinTripsPerMonth, MinTripsPerMonth + 1>>

\* random.randint(a, b) raises ValueError when the range a..b is empty
RandintRaises(a, b) == a > b

\* start_date and (end_date - start_date).days of _generate_trip_schedule
ScheduleStart(today, months) == today - months * 30
ScheduleSpanDays(months) == (months * 30) - 30

\* _determine_trip_type_and_time: the hours the model draws, the first and
\* the last key of the hour_weights table of the day and an errand hour
TripHourChoices(weekday) == IF weekday < 5 THEN {7, 9, 20} ELSE {9, 11, 20}

\* the hours drawn when a whole schedule is generated: the first and the
\* last key of the hour_weights table of the day
ScheduleHourChoices(weekday) == IF weekday < 5 THEN {7, 20} ELSE {9, 20}

\* hour_weights[selected_hour][0]
AlwaysLongDistance(weekday, hour) == "long_distance"
TripTypeAt(weekday, hour) ==
    IF weekday < 5
    THEN (IF hour \in {7, 8, 17, 18} THEN "commute"
          ELSE IF hour \in {9, 12, 15} THEN "errand" ELSE "leisure")
    ELSE (IF hour \in {11, 16} THEN "errand" ELSE "leisure")

\* trip_start, in minutes since day 0 (the minute drawn is not modelled)
TripStart(day, hour) == (day * 24 + hour) * 60

\* profiles.sort(key=lambda p: p.start_time): a stable insertion sort
RECURSIVE InsertProfile(_, _)
InsertProfile(sorted, p) ==
    IF sorted = <<>> THEN <<p>>
    ELSE IF p.start_time < Head(sorted).start_time THEN <<p>> \o sorted
    ELSE <<Head(sorted)>> \o InsertProfile(Tail(sorted), p)

RECURSIVE SortProfiles(_, _)
SortProfiles(profiles, sorted) ==
    IF profiles = <<>> THEN sorted
    ELSE SortProfiles(Tail(profiles), InsertProfile(sorted, Head(profiles)))

\* the draws of generate_driver_trips for one driver: total_trips, the day
\* offset and hour of every trip, whether _generate_trip_data raises for it
ScheduleDraws(driver_data, months, today) ==
    LET freq == trip_frequencies(driver_data.persona_type)
        lo   == freq[1] * months
        hi   == freq[2] * months
        span == ScheduleSpanDays(months)
    IN  IF RandintRaises(lo, hi)
        THEN {[total_trips |-> 0, hours |-> <<>>, outcomes |-> <<>>]}
        ELSE UNION {
               {[total_trips |-> n, hours |-> h, outcomes |-> o] :
                    h \in [1..n -> ScheduleHourChoices(
                              Weekday(ScheduleStart(today, months)))],
                    o \in [1..n -> {"ok", "raise"}]} : n \in lo..hi}

\* _generate_trip_schedule
GenerateTripSchedule(driver_data, months, today, draw) ==
    LET freq == trip_frequencies(driver_data.persona_type)
    IN  IF RandintRaises(freq[1] * months, freq[2] * months)
        THEN [error |-> "ValueError", profiles |-> <<>>]
        ELSE LET trip_date == ScheduleStart(today, months)
                 made == [i \in 1..draw.total_trips |->
                            [start_time |-> TripStart(trip_date, draw.hours[i]),
                             trip_type  |-> TripTypeAt(Weekday(trip_date),
                                                       draw.hours[i]),
                             outcome    |-> draw.outcomes[i]]]
             IN  [error |-> "none", profiles |-> SortProfiles(made, <<>>)]

\* the classes except Exception catches, of those raised here
ExceptionClasses == {"Exception", "ValueError", "OSError"}

\* except Exception of the trip loop of generate_driver_trips
HandlesNoTrip(exc) == FALSE
HandlesTrip(exc) == exc \in ExceptionClasses

\* the trip loop of generate_driver_trips from profile i on
RECURSIVE TripLoop(_, _, _, _)
TripLoop(profiles, i, trips, warnings) ==
    IF i > Len(profiles)
    THEN [error |-> "none", trips |-> trips, warnings |-> warnings]
    ELSE IF profiles[i].outcome = "ok"
    THEN TripLoop(profiles, i + 1,
                  Append(trips, [trip_id |-> i - 1,
                                 start_time |-> profiles[i].start_time]),
                  warnings)
    ELSE IF HandlesTrip("Exception")
    THEN TripLoop(profiles, i + 1, trips, Append(warnings, i - 1))
    ELSE [error |-> "Exception", trips |-> <<>>, warnings |-> warnings]

\* generate_driver_trips
GenerateDriverTrips(driver_data, months, today, draw) ==
    LET schedule == GenerateTripSchedule(driver_data, months, today, draw)
    IN  IF schedule.error # "none"
        THEN [error |-> schedule.error, profiles |-> <<>>, trips |-> <<>>,
              warnings |-> <<>>]
        ELSE [profiles |-> schedule.profiles]
             @@ TripLoop(schedule.profiles, 1, <<>>, <<>>)

\* len(batch_df) of the batch that holds row k (counted from 0)
BatchLen(k) ==
    LET first == (k \div BatchSize) * BatchSize
    IN  IF first + BatchSize <= Len(Step5Drivers) THEN BatchSize
        ELSE Len(Step5Drivers) - first

\* except Exception of the driver loop of _process_driver_batch
HandlesNoDriver(exc) == FALSE
HandlesDriver(exc) == exc \in ExceptionClasses

InitStep5 ==
    /\ now \in NowChoices
    /\ step5_pc = "load"
    /\ step5_months \in Step5MonthsChoices
    /\ driver_cursor = 0
    /\ stats = [drivers_processed |-> 0, total_drivers |-> 0,
                trips_generated |-> 0]
    /\ file_paths = <<>> /\ error_log = <<>> /\ warning_log = <<>>
    /\ trip_profiles = <<>> /\ trips_returned = <<>> /\ summary = <<>>
    /\ ParkPipe /\ ParkAgg /\ ParkScale /\ ParkEnrich /\ ParkThreads
    /\ ParkLoader /\ ParkPopulation /\ ParkSynth /\ ParkRerun /\ ParkSample /\ ParkTemp

\* execute_step_5 up to the batch loop
LoadDriverPortfolio ==
    /\ step5_pc = "load"
    /\ stats' = [stats EXCEPT !.total_drivers = Len(Step5Drivers)]
    /\ step5_pc' = "batches"
    /\ UNCHANGED <<now, step5_months, driver_cursor, file_paths, error_log,
                   warning_log, trip_profiles, trips_returned, summary>>
    /\ OnlyStep5

\* _process_driver_batch: one driver, and the progress update of
\* _process_drivers_in_batches after the last driver of a batch
ProcessDriver ==
    /\ step5_pc = "batches"
    /\ driver_cursor < Len(Step5Drivers)
    /\ \E draw \in ScheduleDraws(Step5Drivers[driver_cursor + 1],
                                 step5_months, now),
          save \in {"ok", "raise"} :
          LET driver_data == Step5Drivers[driver_cursor + 1]
              gen     == GenerateDriverTrips(driver_data, step5_months, now,
                                             draw)
              error   == IF gen.error # "none" THEN gen.error
                         ELSE IF save = "raise" THEN "OSError" ELSE "none"
              batch_done == \/ (driver_cursor + 1) % BatchSize = 0
                            \/ driver_cursor + 1 = Len(Step5Drivers)
              progress == IF batch_done THEN BatchLen(driver_cursor) ELSE 0
          IN  /\ trip_profiles' = gen.profiles
              /\ warning_log' = gen.warnings
              /\ trips_returned' = gen.trips
              /\ IF error = "none"
                 THEN /\ file_paths' = Append(file_paths, driver_cursor + 1)
                      /\ stats' = [stats EXCEPT
                             !.trips_generated = @ + Len(gen.trips),
                             !.drivers_processed = @ + progress]
                      /\ error_log' = error_log
                      /\ driver_cursor' = driver_cursor + 1
                      /\ step5_pc' = IF driver_cursor + 1 = Len(Step5Drivers)
                                     THEN "summary" ELSE "batches"
                 ELSE IF HandlesDriver(error)
                 THEN /\ error_log' = Append(error_log,
                             [driver |-> driver_cursor + 1, error |-> error])
                      /\ stats' = [stats EXCEPT
                             !.drivers_processed = @ + progress]
                      /\ file_paths' = file_paths
                      /\ driver_cursor' = driver_cursor + 1
                      /\ step5_pc' = IF driver_cursor + 1 = Len(Step5Drivers)
                                     THEN "summary" ELSE "batches"
                 ELSE /\ step5_pc' = "failed"
                      /\ UNCHANGED <<error_log, stats, file_paths,
                                     driver_cursor>>
    /\ UNCHANGED <<now, step5_months, summary>>
    /\ OnlyStep5

\* _generate_final_summary
GenerateFinalSummary ==
    /\ step5_pc = "summary"
    /\ summary' = <<[results |-> stats,
                     avg_trips_per_driver |->
                        IF stats.drivers_processed > 0
                        THEN FDiv(F(stats.trips_generated),
                                  F(stats.drivers_processed))
                        ELSE 0]>>
    /\ step5_pc' = "done"
    /\ UNCHANGED <<now, step5_months, driver_cursor, stats, file_paths,
                   error_log, warning_log, trip_profiles, trips_returned>>
    /\ OnlyStep5

NextStep5 == LoadDriverPortfolio \/ ProcessDriver \/ GenerateFinalSummary

SpecStep5 == InitStep5 /\ [][NextStep5]_vars

(***************************************************************************)
(* SpecPopulation: create_driver_population for any persona mix            *)
(***************************************************************************)
\* the float literal n / 10000
Prob(n) == (n * ProbUnit) \div 10000

\* abs(x)
Abs(x) == IF x < 0 THEN 0 - x ELSE x

\* the keys of persona_distribution, in insertion order
PersonaTypes == <<"safe_driver", "average_driver", "risky_driver">>

\* the persona_distribution values the model draws, in key order: the
\* default mix, and mixes that sum to 0.9, 0.9005, ..., 1.102
DistributionChoices ==
    {<<s, a, r>> : s \in {Prob(6000), Prob(5000)},
                   a \in {Prob(3000), Prob(3005), Prob(3020), Prob(4000)},
                   r \in {Prob(1000), Prob(0)}}

\* the values of random.random() the model draws
RandomChoices == {0, (3 * ProbUnit) \div 4, ProbUnit - 1}

\* if abs(total_prob - 1.0) > 0.001
WithinAnyTolerance(total_prob) == FALSE
OutsideTolerance(total_prob) == Abs(total_prob - ProbUnit) > Prob(10)

\* the persona selection loop from key k on
RECURSIVE SelectPersonaFrom(_, _, _, _)
SelectPersonaFrom(distribution, rand_val, k, cumulative_prob) ==
    IF k > Len(distribution) THEN "safe_driver"
    ELSE IF rand_val <= cumulative_prob + distribution[k] THEN PersonaTypes[k]
    ELSE SelectPersonaFrom(distribution, rand_val, k + 1,
                           cumulative_prob + distribution[k])

InitPopulation ==
    /\ pop_pc = "validate"
    /\ persona_distribution \in DistributionChoices
    /\ population = <<>>
    /\ now = 0
    /\ ParkPipe /\ ParkAgg /\ ParkScale /\ ParkEnrich /\ ParkThreads
    /\ ParkLoader /\ ParkStep5 /\ ParkSynth /\ ParkRerun /\ ParkSample /\ ParkTemp

\* create_driver_population: the validation of the distribution
ValidateDistribution ==
    /\ pop_pc = "validate"
    /\ pop_pc' = IF OutsideTolerance(SumSeq(persona_distribution))
                 THEN "ValueError"
                 ELSE IF NumPopulationDrivers = 0 THEN "returned" ELSE "loop"
    /\ UNCHANGED <<persona_distribution, population>>
    /\ OnlyPopulation

\* create_driver_population: one driver of the loop
CreateDriver ==
    /\ pop_pc = "loop"
    /\ \E rand_val \in RandomChoices :
          population' = Append(population,
              [driver_id    |-> <<"driver", Len(population) + 1>>,
               persona_type |-> SelectPersonaFrom(persona_distribution,
                                                  rand_val, 1, 0)])
    /\ pop_pc' = IF Len(population) + 1 = NumPopulationDrivers
                 THEN "returned" ELSE "loop"
    /\ UNCHANGED persona_distribution
    /\ OnlyPopulation

NextPopulation == ValidateDistribution \/ CreateDriver

SpecPopulation == InitPopulation /\ [][NextPopulation]_vars

(***************************************************************************)
(* SpecSynth: TripSimulator._create_trip_profile for one scheduled trip,   *)
(* then the GPS path, the IMU readings and the times _generate_trip_data   *)
(* gives the trip (its enrichment is the subject of SpecEnrich)            *)
(***************************************************************************)
\* min(a, b)
Min2(a, b) == IF a < b THEN a ELSE b

\* trip_params.get(trip_type, trip_params['errand'])['duration'], minutes
TripDurationRange(trip_type) ==
    IF trip_type = "commute" THEN <<15, 45>>
    ELSE IF trip_type = "leisure" THEN <<20, 90>>
    ELSE IF trip_type = "long_distance" THEN <<60, 300>>
    ELSE <<5, 20>>

\* base_speeds.get(trip_type, 30), mph
BaseSpeed(trip_type) ==
    IF trip_type = "commute" THEN 35
    ELSE IF trip_type = "errand" THEN 25
    ELSE IF trip_type = "leisure" THEN 40
    ELSE IF trip_type = "long_distance" THEN 55
    ELSE 30

\* max(5, min(80, speed))
ClipSpeed(speed) == Max2(F(5), Min2(F(80), speed))

\* _generate_speed_profile; every point draws the same speed_variation
GenerateSpeedProfile(duration_minutes, trip_type, driver_data, draw) ==
    LET base_speed == FMul(F(BaseSpeed(trip_type)),
                           driver_data.avg_speed_multiplier)
        num_points == Max2(10, duration_minutes \div (2 * Scale))
        variation  == Uniform(draw, Hundredths(80), Hundredths(120))
    IN  [k \in 1..num_points |->
            LET i == k - 1
                speed_variation ==
                    IF i < 2 \/ i >= num_points - 2
                    THEN FMul(variation, Hundredths(60)) ELSE variation
            IN  ClipSpeed(FMul(base_speed, speed_variation))]

\* the whole days of random.uniform(0, span) the model draws: a Sunday and
\* a Tuesday for the days in NowChoices
SynthDayOffsets == {0, 2}

\* profile.start_time + timedelta(minutes=profile.duration_minutes), in
\* minutes since day 0
TripEndAtStart(start_time, duration_minutes) == F(start_time)
TripEndTime(start_time, duration_minutes) == F(start_time) + duration_minutes

\* _generate_gps_path: the speed_mph of each GPSPoint; every point draws
\* the same variation
GenerateGpsPath(profile, draw) ==
    LET num_points == Max2(30, (2 * profile.duration_minutes) \div Scale)
        n_speeds   == Len(profile.expected_speed_profile)
    IN  [k \in 1..num_points |->
            LET i == k - 1
                speed_idx == Min2(n_speeds - 1,
                                  (i * n_speeds) \div (num_points - 1))
                speed_mph == FMul(profile.expected_speed_profile[speed_idx + 1],
                                  Uniform(draw, Hundredths(90), Hundredths(110)))
            IN  Max2(0, speed_mph)]

\* _generate_imu_data: the timestamp of each IMUReading, in minutes since
\* the start of the trip
GenerateImuData(profile) ==
    LET num_points == Max2(60, (4 * profile.duration_minutes) \div Scale)
    IN  [k \in 1..num_points |->
            ((k - 1) * profile.duration_minutes) \div num_points]

InitSynth ==
    /\ now \in NowChoices
    /\ synth_pc = "profile"
    /\ synth_profile = <<>>
    /\ synth_trip = <<>>
    /\ ParkPipe /\ ParkAgg /\ ParkScale /\ ParkEnrich /\ ParkThreads
    /\ ParkLoader /\ ParkStep5 /\ ParkPopulation /\ ParkRerun /\ ParkSample /\ ParkTemp

\* one iteration of the loop of _generate_trip_schedule:
\* _determine_trip_type_and_time and _create_trip_profile
CreateTripProfile ==
    /\ synth_pc = "profile"
    /\ \E d \in 1..Len(drivers_df), day_offset \in SynthDayOffsets,
          duration_draw \in {"low", "high"}, speed_draw \in {"low", "high"} :
          LET trip_date == ScheduleStart(now, 2) + day_offset
          IN  \E trip_hour \in TripHourChoices(Weekday(trip_date)) :
                LET trip_type == TripTypeAt(Weekday(trip_date), trip_hour)
                    range     == TripDurationRange(trip_type)
                    duration  == Uniform(duration_draw, F(range[1]),
                                         F(range[2]))
                IN  synth_profile' =
                      <<[driver |-> d,
                         start_time |-> TripStart(trip_date, trip_hour),
                         duration_minutes |-> duration,
                         trip_type |-> trip_type,
                         expected_speed_profile |->
                            GenerateSpeedProfile(duration, trip_type,
                                                 drivers_df[d], speed_draw)]>>
    /\ synth_pc' = "trip"
    /\ UNCHANGED <<now, synth_trip>>
    /\ OnlySynth

\* _generate_trip_data
SynthesizeTrip ==
    /\ synth_pc = "trip"
    /\ \E draw \in {"low", "high"} :
          LET profile == synth_profile[1]
          IN  synth_trip' =
                <<[driver_id  |-> drivers_df[profile.driver].driver_id,
                   start_time |-> F(profile.start_time),
                   end_time   |-> TripEndTime(profile.start_time,
                                              profile.duration_minutes),
                   gps_points |-> GenerateGpsPath(profile, draw),
                   imu_readings |-> GenerateImuData(profile),
                   duration_minutes |-> profile.duration_minutes]>>
    /\ synth_pc' = "done"
    /\ UNCHANGED <<now, synth_profile>>
    /\ OnlySynth

NextSynth == CreateTripProfile \/ SynthesizeTrip

SpecSynth == InitSynth /\ [][NextSynth]_vars

(***************************************************************************)
(* Properties of the feature tables                                        *)
(***************************************************************************)
\* C1: no two records of the feature table share the same (driver_id,
\* month) pair, for any run date.  Stated of the table
\* _generate_large_scale_data builds under SpecScale.
UniqueDriverMonth ==
    \A i, j \in 1..Len(monthly_records) :
        (/\ monthly_records[i].driver_id = monthly_records[j].driver_id
         /\ monthly_records[i].month = monthly_records[j].month) => i = j

\* the calendar months of the horizon start_date..end_date
HorizonMonths == {StrfYm(d) : d \in StartDate(now)..(StartDate(now) + SpanDays)}

\* the rate and percentage fields of a record
RateFields ==
    {"hard_brake_rate_per_100_miles", "rapid_accel_rate_per_100_miles",
     "harsh_cornering_rate_per_100_miles", "swerving_events_per_100_miles",
     "speeding_rate_per_100_miles", "handheld_events_rate_per_hour"}
PctFields ==
    {"pct_miles_night", "pct_miles_late_night_weekend",
     "pct_miles_weekday_rush_hour", "pct_trip_time_screen_on",
     "pct_trip_time_on_call_handheld", "pct_miles_highway", "pct_miles_urban",
     "pct_miles_in_rain_or_snow", "pct_miles_in_heavy_traffic"}
DemographicFields ==
    {"driver_age", "vehicle_age", "prior_at_fault_accidents", "years_licensed"}

\* C2: when the pipeline has completed, every driver of the portfolio and
\* every calendar month of the horizon in which the driver has no trip has
\* a record in the output, with all rate and percentage fields 0 and the
\* demographic fields copied from the driver profile.
ZeroTripMonthsKept ==
    pc = "done" =>
        \A d \in 1..Len(drivers_df) : \A m \in HorizonMonths :
            (~\E i \in 1..Len(trips_data) :
                  /\ trips_data[i].driver_id = drivers_df[d].driver_id
                  /\ StrfYm(trips_data[i].start_day) = m)
            => \E k \in 1..Len(result.records) :
                  LET r == result.records[k]
                  IN  /\ r.driver_id = drivers_df[d].driver_id
                      /\ r.month = m
                      /\ \A f \in RateFields \cup PctFields : r[f] = 0
                      /\ \A f \in DemographicFields : r[f] = drivers_df[d][f]

\* C3: every record emitted by the aggregation has every pct_ field within
\* [0, 100] and every rate field greater than or equal to 0.
PctAndRatesInRange ==
    \A k \in 1..Len(monthly_features_list) :
        LET r == monthly_features_list[k]
        IN  /\ \A f \in PctFields : 0 <= r[f] /\ r[f] <= F(100)
            /\ \A f \in RateFields : r[f] >= 0

\* the "_per_100_miles" fields of a record
Per100MilesFields ==
    {"hard_brake_rate_per_100_miles", "rapid_accel_rate_per_100_miles",
     "harsh_cornering_rate_per_100_miles", "swerving_events_per_100_miles",
     "speeding_rate_per_100_miles"}

InterruptReturnsPartialResults ==
    pc = "interrupted" =>
        \A k \in 1..Len(monthly_features_list) :
            /\ "records" \in DOMAIN result
            /\ Len(result.records) = Len(monthly_features_list)
            /\ result.records[k] = monthly_features_list[k]

(***************************************************************************)
(* Properties of the enrichment                                            *)
(***************************************************************************)
\* every lookup of both providers fails (returns nothing or raises) for
\* every sample point of the trip
AllLookupsFail ==
    /\ providers.first = 1 /\ providers.last = NumSamples
    /\ providers.weather # "ok" /\ providers.osm # "ok"

\* C5: if every provider lookup fails for every sampled point of a trip,
\* no exception leaves the enrichment or the trip generation, the trip is
\* produced, and the monthly aggregation of the trip returns its record
\* without an error.
FailedLookupsStillAggregate ==
    (enrich_pc # "off" /\ AllLookupsFail) =>
        /\ enrich_pc \notin {"trip_failed", "aggregation_failed"}
        /\ enrich_pc \in {"produced", "aggregated"} => Len(driver_trips) = 1
        /\ enrich_pc = "aggregated" =>
              /\ Len(trip_features) = 1
              /\ trip_features[1].total_trips = 1

\* C5 witness: both providers raised for every sample point, the trip was
\* produced without any context and its month was aggregated
FailedLookupsAggregated ==
    /\ enrich_pc = "aggregated"
    /\ AllLookupsFail
    /\ providers.weather = "raise" /\ providers.osm = "raise"
    /\ driver_trips[1].contextual_data = <<>>
    /\ trip_features[1].total_trips = 1

\* C6: when a lookup for a sampled point raises, the sample is kept and
\* only the field of that provider takes its neutral default (clear
\* weather, some speed limit); the fields the other providers resolved are
\* what they returned.
FailedLookupKeepsSample ==
    enrich_pc # "off" =>
        \A k \in 1..point_idx :
            /\ Len(contextual_data) = point_idx
            /\ LET c == contextual_data[k]
                   w == OutcomeAt(providers, "weather", k)
                   o == OutcomeAt(providers, "osm", k)
               IN  /\ w = "raise" => c.weather_condition = "clear"
                   /\ w = "ok" => c.weather_condition = ProviderWeather
                   /\ o = "raise" => c.posted_speed_limit_mph > 0
                   /\ o = "ok" => c.posted_speed_limit_mph = ProviderSpeedLimit
                   /\ c.traffic_level = providers.traffic

(***************************************************************************)
(* Properties of the threads                                               *)
(***************************************************************************)
\* every thread has left the loop of _enrich_with_real_apis
AllThreadsDone == \A t \in DOMAIN thread_pc : thread_pc[t] = "done"

\* C7: under any interleaving of the threads the call counter loses no
\* update: when all threads have finished, it equals the number of sample
\* points for which the lookups were attempted.
CounterLosesNoUpdate ==
    (thread_pc # <<>> /\ AllThreadsDone) =>
        api_call_count = SumSeq(thread_point)

\* C7 witness: all threads have finished after each attempted the lookups
\* of all its sample points, and the counter has all of them
CounterCountedAll ==
    /\ thread_pc # <<>> /\ AllThreadsDone
    /\ \A t \in Threads : thread_point[t] = PointsPerThread
    /\ api_call_count = NumThreads * PointsPerThread

\* C9: under any interleaving of the threads, two successive dispatches of
\* lookups are separated by at least the configured delay.
DispatchesKeepDelay == thread_pc # <<>> => last_gap >= ApiDelay

(***************************************************************************)
(* Properties of the downloads                                             *)
(***************************************************************************)
\* the requests to a provider that are in flight
InFlight(provider) == IF provider = download THEN calling ELSE 0

\* C8: at every moment the requests in flight to a provider do not exceed
\* the provider's own limit (10 weather, 2 Overpass, 5 traffic), also after
\* requests that failed.
InFlightWithinLimit ==
    download # "off" => \A p \in Providers : InFlight(p) <= Limit(p)

\* C8 witness: after a failed request, the Overpass requests in flight are
\* at the limit while another task waits for the semaphore
OverpassAtLimit ==
    /\ download = "overpass"
    /\ call_failed
    /\ calling = OverpassLimit
    /\ waiting > 0

(***************************************************************************)
(* Properties of Step5Orchestrator and of generate_driver_trips            *)
(***************************************************************************)
\* the members of a list
InList(list, x) == \E i \in 1..Len(list) : list[i] = x

\* the drivers logger.error reported
FailedDrivers == {error_log[k].driver : k \in 1..Len(error_log)}

SummaryCountsFailedDrivers ==
    step5_pc = "done" =>
        summary[1].results.drivers_processed =
            Len(Step5Drivers) - Cardinality(FailedDrivers)

\* the trips of the last driver's schedule that were synthesized
SynthesizedTrips ==
    {i \in 1..Len(trip_profiles) : trip_profiles[i].outcome = "ok"}

\* C13: when the synthesis of a trip raises, that trip alone is skipped:
\* the list generate_driver_trips returns holds every scheduled trip whose
\* synthesis succeeded, in schedule order, and every trip whose synthesis
\* raised is reported by a warning and is not in the list.
FailedTripAloneSkipped ==
    /\ Len(trips_returned) = Cardinality(SynthesizedTrips)
    /\ \A i \in 1..Len(trip_profiles) :
          IF trip_profiles[i].outcome = "ok"
          THEN \E k \in 1..Len(trips_returned) :
                  /\ trips_returned[k].trip_id = i - 1
                  /\ trips_returned[k].start_time = trip_profiles[i].start_time
          ELSE /\ InList(warning_log, i - 1)
               /\ \A k \in 1..Len(trips_returned) :
                      trips_returned[k].trip_id # i - 1

\* a schedule whose first trip failed and whose later trip was returned
LaterTripReturnedAfterFailure ==
    \E i \in 1..Len(trip_profiles) : \E j \in (i + 1)..Len(trip_profiles) :
        /\ trip_profiles[i].outcome = "raise"
        /\ trip_profiles[j].outcome = "ok"
        /\ \E k \in 1..Len(trips_returned) : trips_returned[k].trip_id = j - 1

\* C16: scheduling trips for a horizon of zero or fewer months returns an
\* empty list and raises no error: no driver of such a run is reported with
\* the ValueError of the schedule, and no trip is returned.
EmptyHorizonSchedulesNothing ==
    step5_months <= 0 =>
        /\ trips_returned = <<>>
        /\ \A k \in 1..Len(error_log) : error_log[k].error # "ValueError"

(***************************************************************************)
(* Properties of _generate_driver_trips_fast and _extract_monthly_features *)
(***************************************************************************)
\* the records of the feature table for one driver and month
RecordsOf(driver_id, month) ==
    {k \in 1..Len(monthly_features_list) :
        /\ monthly_features_list[k].driver_id = driver_id
        /\ monthly_features_list[k].month = month}

\* C14: a driver-month whose driver is absent from the portfolio is skipped
\* with a warning and nothing else is: the loop body never raises, every
\* driver-month the loop has passed has one record when its driver is in
\* drivers_df and none, with a warning, when it is not, and the run that
\* finishes returns completed.
AbsentDriverMonthSkipped ==
    /\ (pc = "aggregate" /\ cursor < Len(driver_month_groups)) =>
          ~ExtractRaises(driver_month_groups[cursor + 1])
    /\ pc \in {"aggregate", "finalize", "done"} =>
          \A g \in 1..cursor :
              LET key       == driver_month_groups[g].key
                  driver_id == ParseDriverId(key)
                  month     == ParseMonth(key)
              IN  IF DriverMatches(driver_id) = <<>>
                  THEN /\ InList(skip_warnings, key)
                       /\ RecordsOf(driver_id, month) = {}
                  ELSE /\ ~InList(skip_warnings, key)
                       /\ Cardinality(RecordsOf(driver_id, month)) = 1
    /\ pc = "done" => result.status = "completed"

\* a completed run that skipped a driver-month and produced a later one
LaterMonthProducedAfterSkip ==
    /\ pc = "done" /\ result.status = "completed"
    /\ \E g \in 1..Len(driver_month_groups) :
          \E h \in (g + 1)..Len(driver_month_groups) :
              /\ InList(skip_warnings, driver_month_groups[g].key)
              /\ RecordsOf(ParseDriverId(driver_month_groups[h].key),
                           ParseMonth(driver_month_groups[h].key)) # {}

\* start_time of a trip, in hours since day 0
StartHourOf(trip) == trip.start_day * 24 + trip.start_hour

\* C17: the list of a driver's trips is in non-decreasing start-time order:
\* of two trips of one driver, the one earlier in the list does not start
\* later.
DriverTripsChronological ==
    \A i, j \in 1..Len(trips_data) :
        (i < j /\ trips_data[i].driver_id = trips_data[j].driver_id) =>
            StartHourOf(trips_data[i]) <= StartHourOf(trips_data[j])

(***************************************************************************)
(* Properties of create_driver_population                                  *)
(***************************************************************************)
\* total_prob of the mix handed in
TotalProb == SumSeq(persona_distribution)

\* C15, as the code has it: a persona mix whose probabilities sum to a
\* value more than 0.001 away from 1 is rejected with the ValueError, and no
\* driver is created.
MixOutsideToleranceRejected ==
    (pop_pc # "validate" /\ Abs(TotalProb - ProbUnit) > Prob(10)) =>
        (pop_pc = "ValueError" /\ population = <<>>)

\* a mix that sums to 0.9 has been rejected
MixSummingToNineTenthsRejected ==
    pop_pc = "ValueError" /\ TotalProb = Prob(9000)

\* C15, as the specification states it: a persona mix whose probabilities
\* do not sum to 1 is rejected with the ValueError, and no driver is
\* created.
MixNotSummingToOneRejected ==
    (pop_pc # "validate" /\ TotalProb # ProbUnit) =>
        (pop_pc = "ValueError" /\ population = <<>>)

(***************************************************************************)
(* Properties of the synthesized trip                                      *)
(***************************************************************************)
\* C18: every generated trip has end_time strictly after start_time, at
\* least 10 GPS points and at least 20 IMU readings, whatever its duration.
TripHasDurationAndSamples ==
    \A k \in 1..Len(synth_trip) :
        /\ synth_trip[k].end_time > synth_trip[k].start_time
        /\ Len(synth_trip[k].gps_points) >= 10
        /\ Len(synth_trip[k].imu_readings) >= 20

\* a trip of the shortest duration drawn, 5 minutes, has been synthesized
ShortestTripSynthesized ==
    synth_trip # <<>> /\ synth_trip[1].duration_minutes = F(5)

\* C19: the speed value of every GPS point of a synthesized trip lies in
\* [0, 80] mph.
GpsSpeedsWithinBounds ==
    \A k \in 1..Len(synth_trip) :
        \A i \in 1..Len(synth_trip[k].gps_points) :
            /\ synth_trip[k].gps_points[i] >= 0
            /\ synth_trip[k].gps_points[i] <= F(80)

\* the fastest trip: a leisure trip of the risky driver with every draw at
\* its upper end, whose cruising points reach 68.64 mph
FastestTripSynthesized ==
    /\ synth_trip # <<>>
    /\ \E i \in 1..Len(synth_trip[1].gps_points) :
          synth_trip[1].gps_points[i] = Hundredths(6864)

(***************************************************************************)
(* Properties of _add_realistic_claims                                     *)
(***************************************************************************)
\* the records that carry a claim probability
LabelledRecords ==
    {i \in 1..Len(monthly_records) :
        "claim_probability" \in DOMAIN monthly_records[i]}

\* C20: the monthly claim probability computed for any record is at least
\* 0 and at most 0.25.
ClaimProbabilityWithinCap ==
    \A i \in LabelledRecords :
        /\ monthly_records[i].claim_probability >= 0
        /\ monthly_records[i].claim_probability <= (25 * ProbUnit) \div 100

\* a table in which one record is at the cap and another below it
ClaimProbabilityCapReached ==
    /\ \E i \in LabelledRecords :
          monthly_records[i].claim_probability = (25 * ProbUnit) \div 100
    /\ \E i \in LabelledRecords :
          /\ monthly_records[i].claim_probability > 0
          /\ monthly_records[i].claim_probability < (25 * ProbUnit) \div 100

\* the feature values of a record: all it holds but the driver and the label
FeatureValues(record) ==
    [f \in DOMAIN record \ {"driver_id", "claim_probability",
                              "had_claim_in_period"} |-> record[f]]

\* C21: two labelled records that agree on accident history, age and every
\* feature value carry the same claim probability, whatever persona_type
\* is stored for their drivers
ClaimProbabilityIgnoresPersona ==
    \A i, j \in LabelledRecords :
        FeatureValues(monthly_records[i]) = FeatureValues(monthly_records[j])
            => monthly_records[i].claim_probability
                 = monthly_records[j].claim_probability

\* C21 witness: the labelled table holds two records with equal feature
\* values whose drivers are stored with different personas
EqualRecordsOfTwoPersonasLabelled ==
    \E i, j \in LabelledRecords :
        /\ FeatureValues(monthly_records[i]) = FeatureValues(monthly_records[j])
        /\ StoredPersona(monthly_records[i]) # StoredPersona(monthly_records[j])
        /\ monthly_records[i].claim_probability > 0

VehicleDefaultsFollowDataSource ==
    \A i \in 1..Len(monthly_features_list) :
        LET features == monthly_features_list[i]
        IN  IF features.data_source = "phone_only"
            THEN features.avg_engine_rpm = F(2100) /\ ~features.has_dtc_codes
            ELSE /\ F(1800) <= features.avg_engine_rpm
                 /\ features.avg_engine_rpm <= F(2500)

\* C23 witness: the smart defaults have been applied to a record of a
\* phone_only driver and to one of a phone_plus_device driver whose RPM was
\* drawn at the top of its range
DefaultsAppliedToBothSources ==
    /\ pc = "done"
    /\ \E i, j \in 1..Len(result.records) :
          /\ result.records[i].data_source = "phone_only"
          /\ result.records[i].total_trips > 0
          /\ result.records[j].data_source = "phone_plus_device"
          /\ result.records[j].avg_engine_rpm = F(2500)
          /\ result.records[j].has_dtc_codes

\* C24: a trip's distance is counted as night mileage only if the trip
\* starts at or after 22:00 or before 06:00: a driver-month none of whose
\* trips starts in that window has no night mileage
NightMilesOnlyFromNightWindow ==
    (/\ agg_status = "returned"
     /\ \A i \in 1..Len(agg_trips) :
            ~(agg_trips[i].start_hour >= 22 \/ agg_trips[i].start_hour < 6))
        => agg_out[1].pct_miles_night = 0

\* C25: of a GPS sequence of 10 or more points, between 10 and 19 points are
\* sampled for the provider calls, however long the sequence is
SampleSizeBounded ==
    (sample_points # <<>> /\ gps_len >= 10)
        => (10 <= Len(sample_points) /\ Len(sample_points) <= 19)

\* C25 witness: a sequence of 19 points has all its 19 points sampled
MostPointsSampled == gps_len = 19 /\ Len(sample_points) = 19

\* C26: concurrent download tasks do not interfere through the shared temp
\* location: the output file of a task holds only data the task itself
\* downloaded, and no task finds its temp file deleted before it read it
TempFilesIsolated ==
    /\ \A t \in DOMAIN state_files : state_files[t] \in {0, t}
    /\ temp_missed = {}

\* C27: once all enrichment calls have returned, the api_calls_made that
\* get_progress returns equals the shared call counter
ProgressMatchesCounter ==
    (thread_pc # <<>> /\ AllThreadsDone) => progress_calls = api_call_count

\* C28: in every monthly feature record pct_miles_highway plus
\* pct_miles_urban is at most 100
HighwayAndUrbanWithinTotal ==
    \A i \in 1..Len(monthly_records) :
        monthly_records[i].pct_miles_highway
            + monthly_records[i].pct_miles_urban <= F(100)

\* C29: in every monthly feature record pct_miles_late_night_weekend is at
\* most pct_miles_night
LateNightWeekendWithinNight ==
    \A i \in 1..Len(monthly_records) :
        monthly_records[i].pct_miles_late_night_weekend
            <= monthly_records[i].pct_miles_night

(***************************************************************************)
(* DataValidator.validate_monthly_features (core/data_validation.py) on a  *)
(* feature table, a list of records whose fields are the columns           *)
(***************************************************************************)
\* required_columns
RequiredColumns ==
    {"driver_id", "month", "total_trips", "total_miles_driven",
     "hard_brake_rate", "speeding_rate", "driver_age"}

\* features_df.columns
ColumnsOf(features_df) ==
    IF features_df = <<>> THEN {} ELSE DOMAIN features_df[1]

\* validate_monthly_features: the missing columns, and the columns with a
\* value out of range
ValidateMonthlyFeatures(features_df) ==
    LET columns == ColumnsOf(features_df)
        rows    == 1..Len(features_df)
        percentage_columns == columns \cap PctFields
    IN  [missing_data |-> RequiredColumns \ columns,
         range_errors |->
            {col \in columns \cap {"total_trips", "total_miles_driven"} :
                \E r \in rows : features_df[r][col] < 0}
            \cup {col \in columns \cap {"driver_age"} :
                     \E r \in rows : \/ features_df[r][col] < 16
                                     \/ features_df[r][col] > 100}
            \cup {col \in percentage_columns :
                     \E r \in rows : \/ features_df[r][col] < 0
                                     \/ features_df[r][col] > F(1)}]

\* C30: the feature table the pipeline produces passes
\* validate_monthly_features with no missing-column error and no range
\* error
FeatureTablePassesValidation ==
    (pc = "done" /\ result.records # <<>>) =>
        LET validation == ValidateMonthlyFeatures(result.records)
        IN  /\ validation.missing_data = {}
            /\ validation.range_errors = {}

====
